---- MODULE Spec2Model ----
(***************************************************************************)
(* Model of the development supervisor of the SnapTrade admin panel:       *)
(*   - the port allocator            (src/findFreePorts.js)                *)
(*   - the process supervisor        (src/unnamed/part_000, start-dev)     *)
(*   - the port reclamation utility  (src/unnamed/part_000 and part_004)   *)
(* Every action is one turn of the Node.js event loop: the completion of   *)
(* one awaited operation together with the synchronous code that follows   *)
(* it up to the next await.                                                *)
(***************************************************************************)
EXTENDS Integers, Sequences, FiniteSets, TLC

\* ------------------------------------------------------------------ bounds
\* Ports of the modelled host are 1..MaxPort (a scaled image of 3000..4999).
MaxPort == 3
\* How often the environment may bind or release a port during one run.
MaxOccChanges == 2
\* How many termination signals are delivered to the supervisor in one run.
MaxSignals == 2

Ports == 1..MaxPort
\* `preferred: undefined` (findFreePorts.js:65) is falsy, like port 0.
NoPreferred == 0

VARIABLES
    \* ---- port allocator (findFreePorts.js)
    opts,          \* the options object of findFreePorts
    occupied,      \* ports some other process is bound to right now
    occChanges,    \* number of occupancy changes since findFreePorts was called
    apc,           \* which isPortFree probe findFreePorts is awaiting
    scanPort,      \* loop variable `port` of the running scan (0: no scan runs)
    backendPort,   \* const backendPort of findFreePorts (0: not yet assigned)
    frontendPort,  \* let frontendPort of findFreePorts (0: not yet assigned)
    rescanned,     \* TRUE once the collision branch (lines 63-70) was taken
    \* ---- supervisor (part_000) and the kill-ports script (part_004)
    pc,            \* position of startServices / main
    exitCause,     \* "none" while the process lives, else why it ended
    exitCode,      \* exit status of the process (-1 while it lives)
    BACKEND_PORT,  \* module variable BACKEND_PORT (0: undefined)
    FRONTEND_PORT, \* module variable FRONTEND_PORT (0: undefined)
    attempt,       \* loop variable i of waitForBackend (0 once it returned true)
    probing,       \* "inflight": axios.get pending, "sleeping": the 1 s pause,
                   \* "hung": axios.get pending on a backend that does not answer
    child,         \* state of the backend and frontend child processes
    killed,        \* child.killed of each child
    termSent,      \* terminate requests issued to each child
    handlers,      \* the SIGINT/SIGTERM handlers are installed
    shuttingDown,  \* the latch of shutdown
    sd,            \* position of the running shutdown call
    signals,       \* termination signals delivered so far
    trace,         \* what the supervisor has done, in order
    \* ---- killProcessOnPort
    impl,          \* "dev": part_000, "killPorts": part_004
    isWindows,     \* process.platform === "win32"
    kpState,       \* "idle", "lookup" (lsof/netstat running), "settle"
    kpPort,        \* argument port of the running call
    kpCaller,      \* who awaits the running call
    kpBuf,         \* `pid` (POSIX) or `output` (Windows) collected so far
    kpPending,     \* stdout chunks the lookup will still deliver
    kpKills,       \* argument of every kill/taskkill spawned by the running call
    kpCalls,       \* calls of killProcessOnPort made
    kpResolved,    \* calls whose promise was resolved
    BACKEND_URL,   \* the module variable BACKEND_URL (part_000:26)
    env,           \* the env option each child was spawned with
    lastStatus,    \* HTTP status of the last health probe that was answered
    \* ---- holdings view of the admin UI (part_001, part_002)
    holdingsData,  \* the payload fetchHoldings returned (state holdingsData)
    normalized,    \* normalizeHoldingsResponse(holdingsData), once computed
    renormalized,  \* normalizeHoldingsResponse(normalized.raw), once computed
    rows,          \* the table rows rendered so far, one per position
    \* ---- backend proxy (server.js, server_supabase.js)
    variant,       \* "memory": server.js, "supabase": server_supabase.js
    remoteUsers,   \* userIds registered at the remote service
    userSecrets,   \* userIds the backend's secret store holds a secret for
    req,           \* the request being handled
    hpc,           \* position of its handler
    calls,         \* remote calls made while handling it, with their outcome
    response       \* the response sent for it

allocVars == <<opts, occupied, occChanges, apc, scanPort, backendPort, frontendPort, rescanned>>

supVars == <<pc, exitCause, exitCode, BACKEND_PORT, FRONTEND_PORT, attempt, probing,
             child, killed, termSent, handlers, shuttingDown, sd, signals, trace,
             BACKEND_URL, env, lastStatus>>

kpVars == <<impl, isWindows, kpState, kpPort, kpCaller, kpBuf, kpPending, kpKills,
            kpCalls, kpResolved>>

uiVars == <<holdingsData, normalized, renormalized, rows>>

apiVars == <<variant, remoteUsers, userSecrets, req, hpc, calls, response>>

vars == <<allocVars, supVars, kpVars, uiVars, apiVars>>

\* ------------------------------------------------------------ port allocator
Max(a, b) == IF a >= b THEN a ELSE b

\* isPortFree: a real bind on the port; it fails iff the port is held.
IsPortFree(port, occ) == port \notin occ

\* All option objects over the modelled ports.
AllocOptions ==
    [preferredBackendPort: Ports, preferredFrontendPort: Ports,
     backendRangeStart: Ports, backendRangeEnd: Ports,
     frontendRangeStart: Ports, frontendRangeEnd: Ports]

\* The allocator's own state as a record, so that the synchronous code between
\* two probes can be written as a function of it.
AllocState ==
    [apc |-> apc, scanPort |-> scanPort, backendPort |-> backendPort,
     frontendPort |-> frontendPort, rescanned |-> rescanned]

\* A scan that starts one port too high.
BeginScan_SkipFirst(s, phase, start, end) ==
    IF start + 1 > end
    THEN [s EXCEPT !.apc = "threw"]
    ELSE [s EXCEPT !.apc = phase, !.scanPort = start + 1]

\* for (let port = start; port <= end; ...) : enter the loop at `start`, or fall
\* out of it and throw "No free port found in range".
BeginScan(s, phase, start, end) ==
    IF start > end
    THEN [s EXCEPT !.apc = "threw"]
    ELSE [s EXCEPT !.apc = phase, !.scanPort = start]

\* A findFreePort that ignores the preferred port.
BeginFindFreePort_IgnorePreferred(s, prefPhase, scanPhase, preferred, start, end) ==
    BeginScan(s, scanPhase, start, end)

\* findFreePort up to its first probe: `if (preferred)` probes the preferred
\* port, a falsy preferred goes straight to the scan.
BeginFindFreePort(s, prefPhase, scanPhase, preferred, start, end) ==
    IF preferred # NoPreferred
    THEN [s EXCEPT !.apc = prefPhase]
    ELSE BeginScan(s, scanPhase, start, end)

\* A re-scan that starts again at the bottom of the frontend range.
RescanStart_FromRangeStart(o, b) == o.frontendRangeStart

\* A re-scan whose start is held down to the top of the frontend range.
RescanStart_Clamped(o, b) ==
    IF Max(o.frontendRangeStart, b + 1) > o.frontendRangeEnd
    THEN o.frontendRangeEnd
    ELSE Max(o.frontendRangeStart, b + 1)

\* rangeStart of the collision re-scan.
RescanStart(o, b) == Max(o.frontendRangeStart, b + 1)

\* frontendPort === backendPort
Collides(f, b) == f = b

\* The code of findFreePorts that runs when a findFreePort call returns port p.
Returned(s, o, p) ==
    IF s.apc \in {"prefB", "scanB"}
    THEN BeginFindFreePort([s EXCEPT !.backendPort = p], "prefF", "scanF",
                           o.preferredFrontendPort, o.frontendRangeStart,
                           o.frontendRangeEnd)
    ELSE IF s.apc \in {"prefF", "scanF"}
    THEN IF Collides(p, s.backendPort)
         THEN BeginFindFreePort([s EXCEPT !.frontendPort = p, !.rescanned = TRUE],
                                "none", "rescan", NoPreferred,
                                RescanStart(o, s.backendPort), o.frontendRangeEnd)
         ELSE [s EXCEPT !.frontendPort = p, !.apc = "done", !.scanPort = 0]
    ELSE [s EXCEPT !.frontendPort = p, !.apc = "done", !.scanPort = 0]

\* The port the pending isPortFree call probes.
ProbedPort(s, o) ==
    CASE s.apc = "prefB" -> o.preferredBackendPort
      [] s.apc = "prefF" -> o.preferredFrontendPort
      [] OTHER -> s.scanPort

\* rangeEnd of the scan the allocator is in.
ScanEnd(s, o) ==
    IF s.apc \in {"prefB", "scanB"} THEN o.backendRangeEnd ELSE o.frontendRangeEnd

\* One probe completes with result `ok`; the allocator runs to its next probe.
AfterProbe(s, o, ok) ==
    IF ok
    THEN Returned(s, o, ProbedPort(s, o))
    ELSE CASE s.apc = "prefB" ->
                BeginScan(s, "scanB", o.backendRangeStart, o.backendRangeEnd)
           [] s.apc = "prefF" ->
                BeginScan(s, "scanF", o.frontendRangeStart, o.frontendRangeEnd)
           [] OTHER -> BeginScan(s, s.apc, s.scanPort + 1, ScanEnd(s, o))

AllocAwaiting == apc \in {"prefB", "scanB", "prefF", "scanF", "rescan"}

SetAllocState(s) ==
    /\ apc' = s.apc
    /\ scanPort' = s.scanPort
    /\ backendPort' = s.backendPort
    /\ frontendPort' = s.frontendPort
    /\ rescanned' = s.rescanned

\* findFreePorts(options) is called: runs to the first probe.
CallFindFreePorts ==
    /\ apc = "idle"
    /\ SetAllocState(BeginFindFreePort(AllocState, "prefB", "scanB",
                                       opts.preferredBackendPort,
                                       opts.backendRangeStart, opts.backendRangeEnd))
    /\ UNCHANGED <<opts, occupied, occChanges>>

\* The pending isPortFree probe completes.
AllocStep ==
    /\ AllocAwaiting
    /\ SetAllocState(AfterProbe(AllocState, opts,
                                IsPortFree(ProbedPort(AllocState, opts), occupied)))
    /\ UNCHANGED <<opts, occupied, occChanges>>

\* Another process binds or releases a port while findFreePorts is running.
OccupancyChange ==
    /\ exitCause = "none"
    /\ AllocAwaiting
    /\ occChanges < MaxOccChanges
    /\ \E p \in Ports :
          occupied' = IF p \in occupied THEN occupied \ {p} ELSE occupied \cup {p}
    /\ occChanges' = occChanges + 1
    /\ UNCHANGED <<opts, apc, scanPort, backendPort, frontendPort, rescanned>>
    /\ UNCHANGED <<supVars, kpVars>>
    /\ UNCHANGED <<uiVars, apiVars>>

AllocInit(optionSet) ==
    /\ opts \in optionSet
    /\ occupied \in SUBSET Ports
    /\ occChanges = 0
    /\ apc = "idle"
    /\ scanPort = 0
    /\ backendPort = 0
    /\ frontendPort = 0
    /\ rescanned = FALSE

\* --------------------------------------------------------- killProcessOnPort
\* Process ids, as the text the lookup prints.
Pids == {"7", "8"}

\* Two different processes.
PidPairs == {d \in Pids \X Pids : d[1] # d[2]}

Whitespace == {"\n", " "}

RECURSIVE TrimLeft(_)
TrimLeft(s) ==
    IF s # <<>> /\ Head(s) \in Whitespace THEN TrimLeft(Tail(s)) ELSE s

RECURSIVE TrimRight(_)
TrimRight(s) ==
    IF s # <<>> /\ s[Len(s)] \in Whitespace
    THEN TrimRight(SubSeq(s, 1, Len(s) - 1))
    ELSE s

\* String.prototype.trim on a string held as a sequence of characters.
Trim(s) == TrimRight(TrimLeft(s))

\* What `lsof -ti tcp:<port>` can write: one pid per line, delivered to the
\* "data" handler in one chunk or line by line.
LsofOutputs ==
    {<<>>}
    \cup {<< <<p, "\n">> >> : p \in Pids}
    \cup {<< <<d[1], "\n", d[2], "\n">> >> : d \in PidPairs}
    \cup {<< <<d[1], "\n">>, <<d[2], "\n">> >> : d \in PidPairs}

\* A line of `netstat -ano`, reduced to what the close handler reads of it:
\* whether it matches `:<port>\s` and contains LISTENING, and its last column.
NetstatLines ==
    {[match |-> TRUE, pid |-> <<p>>] : p \in Pids}
    \cup {[match |-> FALSE, pid |-> <<"7">>], [match |-> TRUE, pid |-> <<"x">>]}

\* What netstat can write, one line per chunk.
NetstatOutputs ==
    {<<>>}
    \cup {<< <<l>> >> : l \in NetstatLines}
    \cup {<< <<l>>, <<m>> >> : l \in NetstatLines, m \in NetstatLines}

LookupOutputs(win) == IF win THEN NetstatOutputs ELSE LsofOutputs

\* pid && !isNaN(pid)
IsNumericPid(pid) == pid # <<>> /\ \A i \in 1..Len(pid) : pid[i] \in Pids

\* The lines of `output` the Windows close handler acts on.
ListeningPids(buf) ==
    LET hit == SelectSeq(buf, LAMBDA l : l.match /\ IsNumericPid(l.pid))
    IN  [i \in 1..Len(hit) |-> hit[i].pid]

\* The kill/taskkill commands the close handler spawns, as the pid argument of
\* each. POSIX: one `kill -9 <pid>` with the whole collected text as its argument
\* when lsof exited 0 with output. Windows: part_000 stops at the first matching
\* line, part_004 goes through all of them.
KillsOnClose(im, win, code, buf) ==
    IF win
    THEN IF im = "dev"
         THEN IF ListeningPids(buf) # <<>> THEN <<Head(ListeningPids(buf))>> ELSE <<>>
         ELSE ListeningPids(buf)
    ELSE IF code = 0 /\ buf # <<>> THEN <<buf>> ELSE <<>>

\* part_004 waits for the settle delay after every lookup, part_000 only after
\* it spawned a kill.
SettlesAfterClose(im, kills) == im = "killPorts" \/ kills # <<>>

\* Whether spawning the kill command can emit "error". spawn("kill", ...) has
\* no `shell: true`, so a command that cannot be started (ENOENT, EAGAIN) emits
\* "error" on the child; with `shell: true` (taskkill) the shell starts and the
\* command's failure is only an exit status. Neither file attaches an "error"
\* listener to the kill child (part_000:112, part_004:90), so the event is
\* thrown as an uncaught exception.
KillSpawnCanFail(win) == ~win

Alive == exitCause = "none"

Ev(name, port) == [ev |-> name, port |-> port]

\* killProcessOnPort(port) is called: the lookup is spawned.
KpCall(port, caller) ==
    /\ kpState' = "lookup"
    /\ kpPort' = port
    /\ kpCaller' = caller
    /\ kpBuf' = <<>>
    /\ kpPending' \in LookupOutputs(isWindows)
    /\ kpKills' = <<>>
    /\ kpCalls' = kpCalls + 1

\* No call of killProcessOnPort is running.
KpIdle ==
    /\ kpState' = "idle"
    /\ kpPort' = 0
    /\ kpCaller' = "none"
    /\ kpBuf' = <<>>
    /\ kpPending' = <<>>
    /\ kpKills' = <<>>
    /\ kpCalls' = kpCalls

\* process.exit(code), or the death of the process.
ProcessEnds(cause, code, events) ==
    /\ exitCause' = cause
    /\ exitCode' = code
    /\ pc' = "exited"
    /\ trace' = trace \o events

\* ---------------------------------------------------------------- supervisor
\* waitForBackend(maxRetries = 30)
MaxRetries == 30

Roles == {"backend", "frontend"}

ChildLive(c) == child[c] \in {"starting", "listening", "running"}

\* GET /api/status as axios sees it: 0 when the connection is refused, else the
\* status the handler answers with: 200 when its own check of the remote
\* service succeeds, 500 when that check throws.
StatusReply(backendState, remoteOk) ==
    IF backendState # "listening" THEN 0
    ELSE IF remoteOk THEN 200 ELSE 500

\* A health gate that takes any answer, or none, for success.
ProbeSucceeds_Always(status) == TRUE

\* A health gate that takes every answered probe for success.
ProbeSucceeds_AnyAnswer(status) == status > 0

\* axios resolves for a 2xx status and rejects otherwise.
ProbeSucceeds(status) == status >= 200 /\ status < 300

\* A supervisor that goes on to the frontend whatever waitForBackend returned.
AbortsStartup_Never(backendReady) == FALSE

\* if (!backendReady) { ...; backend.kill(); process.exit(1); }
AbortsStartup(backendReady) == ~backendReady

\* A shutdown without its latch.
AlreadyShuttingDown_NoLatch(latch) == FALSE

\* if (shuttingDown) return;
AlreadyShuttingDown(latch) == latch

\* child.kill(): the signal is sent and child.killed set when the child lives.
ChildKill(st, c) ==
    [st EXCEPT !.termSent[c] = @ + 1,
               !.killed[c] = @ \/ ChildLive(c),
               !.events = Append(@, Ev(IF c = "backend" THEN "termBackend"
                                       ELSE "termFrontend", 0))]

\* killChildTree(child)
KillChildTree(st, c) ==
    IF child[c] = "none" \/ st.killed[c] THEN st
    ELSE IF isWindows
    THEN [st EXCEPT !.termSent[c] = @ + 1,
                    !.events = Append(@, Ev(IF c = "backend" THEN "termBackend"
                                            ELSE "termFrontend", 0))]
    ELSE ChildKill(st, c)

KillState == [termSent |-> termSent, killed |-> killed, events |-> <<>>]

\* A startup that carries on when findFreePorts threw.
AllocOutcome_SwallowThrow(a) ==
    IF a \in {"done", "threw"} THEN "cleanup" ELSE "pending"

\* What startServices does with the state findFreePorts is in: keep awaiting
\* it, carry on with the returned ports, or reject into startServices().catch.
AllocOutcome(a) ==
    IF a = "done" THEN "cleanup" ELSE IF a = "threw" THEN "catch" ELSE "pending"

\* ------------------------------------------- ports in URLs and environments
DecimalDigits == <<"0", "1", "2", "3", "4", "5", "6", "7", "8", "9">>

\* String(n) for a port number: its decimal digits.
RECURSIVE DecimalString(_)
DecimalString(n) ==
    IF n < 10 THEN <<DecimalDigits[n + 1]>>
    ELSE Append(DecimalString(n \div 10), DecimalDigits[(n % 10) + 1])

\* Number(s) for a string of decimal digits; Number("") is 0.
RECURSIVE ParseNumber(_)
ParseNumber(s) ==
    IF s = <<>> THEN 0
    ELSE 10 * ParseNumber(SubSeq(s, 1, Len(s) - 1))
         + (CHOOSE d \in 0..9 : DecimalDigits[d + 1] = s[Len(s)])

\* `http://localhost:${port}`: a URL is held as the sequence of its pieces, the
\* scheme and host first, then the digits of the port, then the path.
LocalUrl(port) == <<"http://localhost:">> \o DecimalString(port)

\* `${BACKEND_URL}/api/status`
StatusUrl(url) == Append(url, "/api/status")

\* `${BACKEND_URL}/api`
ApiBaseUrl(url) == Append(url, "/api")

\* The port a request to `url` connects to.
UrlPort(url) ==
    ParseNumber(SelectSeq(Tail(url), LAMBDA piece : \E d \in 1..10 : DecimalDigits[d] = piece))

\* let BACKEND_URL; : undefined until the ports are allocated.
NoUrl == <<>>

\* A child that was not spawned has no environment.
NoEnv == [x \in {} |-> <<>>]

\* No health probe was answered yet.
NoStatus == -1

\* A backend environment with the two ports exchanged.
BackendEnv_Swapped(bp, fp) ==
    [BACKEND_PORT |-> DecimalString(fp), FRONT_END_URL |-> LocalUrl(bp)]

\* env of the backend child, without the inherited process.env.
BackendEnv(bp, fp) ==
    [BACKEND_PORT |-> DecimalString(bp), FRONT_END_URL |-> LocalUrl(fp)]

\* A frontend environment with the same URL under both names.
FrontendEnv_SameUrl(fp, bp, url) ==
    [PORT |-> DecimalString(fp), BACKEND_PORT |-> DecimalString(bp),
     REACT_APP_BACKEND_URL |-> url, REACT_APP_API_BASE_URL |-> url]

\* env of the frontend child, without the inherited process.env.
FrontendEnv(fp, bp, url) ==
    [PORT |-> DecimalString(fp), BACKEND_PORT |-> DecimalString(bp),
     REACT_APP_BACKEND_URL |-> url, REACT_APP_API_BASE_URL |-> ApiBaseUrl(url)]

\* const PORT = Number(process.env.BACKEND_PORT || 0); app.listen(PORT)
ListenPort(e) == ParseNumber(e.BACKEND_PORT)

\* The state of the backend as the probe sees it: the probe reaches the backend
\* when it connects to the port the backend listens on.
ProbedBackend ==
    IF UrlPort(StatusUrl(BACKEND_URL)) = ListenPort(env.backend)
    THEN child.backend
    ELSE "none"

\* const frontend = spawn("npm", ["start"], ...) (lines 197-223)
SpawnFrontend(events) ==
    /\ child' = [child EXCEPT !.frontend = "running"]
    /\ env' = [env EXCEPT !.frontend = FrontendEnv(FRONTEND_PORT, BACKEND_PORT, BACKEND_URL)]
    /\ trace' = trace \o events \o <<Ev("spawnFrontend", FRONTEND_PORT)>>
    /\ pc' = "registering"
    /\ probing' = "none"

\* The code that runs when the promise of killProcessOnPort is resolved: the
\* awaiting caller goes on to its next await.
Resume ==
    /\ kpResolved' = kpResolved + 1
    /\ UNCHANGED <<allocVars, impl, isWindows>>
    /\ CASE kpCaller = "cleanB" ->
              /\ KpCall(FRONTEND_PORT, "cleanF")
              /\ trace' = Append(trace, Ev("cleanFrontendPort", FRONTEND_PORT))
              /\ UNCHANGED <<pc, exitCause, exitCode, BACKEND_PORT, FRONTEND_PORT, BACKEND_URL,
                             attempt, lastStatus, probing, child, env, killed, termSent, handlers,
                             shuttingDown, sd, signals>>
         [] kpCaller = "cleanF" ->
              /\ KpIdle
              /\ child' = [child EXCEPT !.backend = "starting"]
              /\ env' = [env EXCEPT !.backend = BackendEnv(BACKEND_PORT, FRONTEND_PORT)]
              /\ trace' = Append(trace, Ev("spawnBackend", BACKEND_PORT))
              /\ pc' = "waiting"
              /\ attempt' = 0
              /\ probing' = "inflight"
              /\ UNCHANGED lastStatus
              /\ UNCHANGED <<exitCause, exitCode, BACKEND_PORT, FRONTEND_PORT, BACKEND_URL, killed,
                             termSent, handlers, shuttingDown, sd, signals>>
         [] kpCaller = "sdB" ->
              /\ KpCall(FRONTEND_PORT, "sdF")
              /\ trace' = Append(trace, Ev("reclaimFrontendPort", FRONTEND_PORT))
              /\ UNCHANGED <<pc, exitCause, exitCode, BACKEND_PORT, FRONTEND_PORT, BACKEND_URL,
                             attempt, lastStatus, probing, child, env, killed, termSent, handlers,
                             shuttingDown, sd, signals>>
         [] kpCaller = "sdF" ->
              /\ KpIdle
              /\ ProcessEnds("exit", 0, <<Ev("exit", 0)>>)
              /\ sd' = "done"
              /\ UNCHANGED <<BACKEND_PORT, FRONTEND_PORT, BACKEND_URL, attempt, lastStatus, probing, child, env,
                             killed, termSent, handlers, shuttingDown, signals>>
         [] kpCaller = "main1" ->
              /\ KpCall(BACKEND_PORT, "main2")
              /\ UNCHANGED supVars
         [] kpCaller = "main2" ->
              /\ KpIdle
              /\ pc' = "mainDone"
              /\ UNCHANGED <<exitCause, exitCode, BACKEND_PORT, FRONTEND_PORT, BACKEND_URL, attempt, lastStatus,
                             probing, child, env, killed, termSent, handlers, shuttingDown,
                             sd, signals, trace>>

\* stdout "data": the chunk is appended, on POSIX after trim().
KpData ==
    /\ Alive
    /\ kpState = "lookup"
    /\ kpPending # <<>>
    /\ kpBuf' = kpBuf \o (IF isWindows THEN Head(kpPending) ELSE Trim(Head(kpPending)))
    /\ kpPending' = Tail(kpPending)
    /\ UNCHANGED <<allocVars, supVars, impl, isWindows, kpState, kpPort, kpCaller,
                   kpKills, kpCalls, kpResolved>>
    /\ UNCHANGED <<uiVars, apiVars>>

\* findProcess "error": the lookup command could not be spawned; resolve().
KpLookupError ==
    /\ Alive
    /\ kpState = "lookup"
    /\ kpBuf = <<>>
    /\ Resume
    /\ UNCHANGED <<uiVars, apiVars>>

\* findProcess "close" with exit status `code`.
KpClose ==
    /\ Alive
    /\ kpState = "lookup"
    /\ kpPending = <<>>
    /\ \E code \in {0, 1}, killStarts \in BOOLEAN :
         LET kills == KillsOnClose(impl, isWindows, code, kpBuf) IN
         IF kills # <<>> /\ ~killStarts /\ KillSpawnCanFail(isWindows)
         THEN \* "error" on the kill child, no listener: uncaught exception
              /\ ProcessEnds("uncaught", 1, <<Ev("crash", kpPort)>>)
              /\ kpKills' = kills
              /\ UNCHANGED <<allocVars, BACKEND_PORT, FRONTEND_PORT, BACKEND_URL, attempt, lastStatus, probing,
                             child, env, killed, termSent, handlers, shuttingDown, sd,
                             signals, impl, isWindows, kpState, kpPort, kpCaller,
                             kpBuf, kpPending, kpCalls, kpResolved>>
         ELSE IF SettlesAfterClose(impl, kills)
         THEN \* setTimeout(resolve, 1000)
              /\ kpState' = "settle"
              /\ kpKills' = kills
              /\ UNCHANGED <<allocVars, supVars, impl, isWindows, kpPort, kpCaller,
                             kpBuf, kpPending, kpCalls, kpResolved>>
         ELSE Resume
    /\ UNCHANGED <<uiVars, apiVars>>

\* The 1 s settle timer fires: resolve().
KpSettle ==
    /\ Alive
    /\ kpState = "settle"
    /\ Resume
    /\ UNCHANGED <<uiVars, apiVars>>

\* The code of startServices that follows `await findFreePorts(...)`, for the
\* allocator state `s` the last probe led to.
AfterFindFreePorts(s) ==
    /\ SetAllocState(s)
    /\ UNCHANGED <<opts, occupied, occChanges, impl, isWindows, kpResolved>>
    /\ CASE AllocOutcome(s.apc) = "pending" ->
              /\ pc' = "allocating"
              /\ UNCHANGED <<exitCause, exitCode, BACKEND_PORT, FRONTEND_PORT, BACKEND_URL, trace>>
              /\ UNCHANGED <<kpState, kpPort, kpCaller, kpBuf, kpPending, kpKills, kpCalls>>
         [] AllocOutcome(s.apc) = "catch" ->
              \* startServices().catch: log the error, process.exit(1)
              /\ ProcessEnds("exit", 1, <<Ev("exit", 1)>>)
              /\ UNCHANGED <<BACKEND_PORT, FRONTEND_PORT, BACKEND_URL>>
              /\ UNCHANGED <<kpState, kpPort, kpCaller, kpBuf, kpPending, kpKills, kpCalls>>
         [] AllocOutcome(s.apc) = "cleanup" ->
              /\ BACKEND_PORT' = s.backendPort
              /\ FRONTEND_PORT' = s.frontendPort
              /\ BACKEND_URL' = LocalUrl(s.backendPort)
              /\ pc' = "cleanup"
              /\ trace' = trace \o <<Ev("allocated", 0),
                                     Ev("cleanBackendPort", s.backendPort)>>
              /\ KpCall(s.backendPort, "cleanB")
              /\ UNCHANGED <<exitCause, exitCode>>
    /\ UNCHANGED <<attempt, lastStatus, probing, child, env, killed, termSent, handlers, shuttingDown,
                   sd, signals>>

\* startServices() is called and runs to the first probe of findFreePorts.
StartServices ==
    /\ pc = "init"
    /\ AfterFindFreePorts(BeginFindFreePort(AllocState, "prefB", "scanB",
                                            opts.preferredBackendPort,
                                            opts.backendRangeStart,
                                            opts.backendRangeEnd))
    /\ UNCHANGED <<uiVars, apiVars>>

\* A probe of findFreePorts completes while startServices awaits it.
AllocProbeDone ==
    /\ Alive
    /\ pc = "allocating"
    /\ AllocAwaiting
    /\ AfterFindFreePorts(AfterProbe(AllocState, opts,
                             IsPortFree(ProbedPort(AllocState, opts), occupied)))
    /\ UNCHANGED <<uiVars, apiVars>>

\* The backend accepted the probe's connection and does not answer it. The
\* request is `axios.get(url)` without a timeout option (part_000:127), so the
\* await ends only if the connection is closed.
ProbeHangs ==
    /\ Alive
    /\ pc = "waiting"
    /\ probing = "inflight"
    /\ ProbedBackend = "listening"
    /\ probing' = "hung"
    /\ UNCHANGED <<allocVars, kpVars, pc, exitCause, exitCode, BACKEND_PORT,
                   FRONTEND_PORT, BACKEND_URL, attempt, lastStatus, child, env, killed,
                   termSent, handlers, shuttingDown, sd, signals, trace>>
    /\ UNCHANGED <<uiVars, apiVars>>

\* The pending health probe is answered; a probe the backend left unanswered
\* ends with an error once the backend is gone.
ProbeReply ==
    /\ Alive
    /\ pc = "waiting"
    /\ IF probing = "hung" THEN child.backend # "listening" ELSE probing = "inflight"
    /\ \E remoteOk \in BOOLEAN :
         LET status == StatusReply(ProbedBackend, remoteOk) IN
         /\ lastStatus' = status
         /\ IF ProbeSucceeds(status)
            THEN \* return true; the frontend is spawned
                 /\ SpawnFrontend(IF status = 200 THEN <<Ev("healthy", BACKEND_PORT)>>
                                  ELSE <<>>)
                 /\ attempt' = 0
            ELSE \* catch: sleep 1 s
                 /\ probing' = "sleeping"
                 /\ UNCHANGED <<pc, child, env, trace, attempt>>
    /\ UNCHANGED <<allocVars, kpVars, exitCause, exitCode, BACKEND_PORT, FRONTEND_PORT, BACKEND_URL,
                   killed, termSent, handlers, shuttingDown, sd, signals>>
    /\ UNCHANGED <<uiVars, apiVars>>

\* The 1 s pause after a failed probe ends and another probe is issued.
NextProbe ==
    /\ Alive
    /\ pc = "waiting"
    /\ probing = "sleeping"
    /\ attempt + 1 < MaxRetries
    /\ attempt' = attempt + 1
    /\ UNCHANGED lastStatus
    /\ probing' = "inflight"
    /\ UNCHANGED <<allocVars, kpVars, pc, exitCause, exitCode, BACKEND_PORT,
                   FRONTEND_PORT, BACKEND_URL, child, env, killed, termSent, handlers, shuttingDown, sd,
                   signals, trace>>
    /\ UNCHANGED <<uiVars, apiVars>>

\* The pause after the last failed probe ends: waitForBackend logs "Backend
\* failed to start within 30 seconds" and returns false.
HealthTimeout ==
    /\ Alive
    /\ pc = "waiting"
    /\ probing = "sleeping"
    /\ attempt + 1 >= MaxRetries
    /\ attempt' = attempt + 1
    /\ UNCHANGED lastStatus
    /\ IF AbortsStartup(FALSE)
       THEN LET st == ChildKill(KillState, "backend") IN
            /\ termSent' = st.termSent
            /\ killed' = st.killed
            /\ ProcessEnds("exit", 1,
                           <<Ev("healthTimeout", 0)>> \o st.events \o <<Ev("exit", 1)>>)
            /\ UNCHANGED <<child, env, probing>>
       ELSE /\ SpawnFrontend(<<Ev("healthTimeout", 0)>>)
            /\ UNCHANGED <<termSent, killed, exitCause, exitCode>>
    /\ UNCHANGED <<allocVars, kpVars, BACKEND_PORT, FRONTEND_PORT, BACKEND_URL, handlers,
                   shuttingDown, sd, signals>>
    /\ UNCHANGED <<uiVars, apiVars>>

\* process.on("SIGINT", ...); process.on("SIGTERM", ...) (lines 243-244)
RegisterHandlers ==
    /\ Alive
    /\ pc = "registering"
    /\ handlers' = TRUE
    /\ pc' = "running"
    /\ trace' = Append(trace, Ev("running", 0))
    /\ UNCHANGED <<allocVars, kpVars, exitCause, exitCode, BACKEND_PORT, FRONTEND_PORT, BACKEND_URL,
                   attempt, lastStatus, probing, child, env, killed, termSent, shuttingDown, sd, signals>>
    /\ UNCHANGED <<uiVars, apiVars>>

SignalNames == {"SIGINT", "SIGTERM"}

\* Exit status of a process ended by a signal: 128 + the signal's number.
SignalExitCode(sig) == IF sig = "SIGINT" THEN 128 + 2 ELSE 128 + 15

SignalDeliverable == Alive /\ pc \in {"allocating", "cleanup", "waiting", "registering", "running"}

\* A termination signal arrives while no handler is installed for it: the
\* default disposition ends the process at once.
SignalDefault ==
    /\ SignalDeliverable
    /\ signals < MaxSignals
    /\ ~handlers
    /\ signals' = signals + 1
    /\ \E sig \in SignalNames :
         ProcessEnds("signal", SignalExitCode(sig), <<Ev("killedBySignal", 0)>>)
    /\ UNCHANGED <<allocVars, kpVars, BACKEND_PORT, FRONTEND_PORT, BACKEND_URL, attempt, lastStatus, probing,
                   child, env, killed, termSent, handlers, shuttingDown, sd>>
    /\ UNCHANGED <<uiVars, apiVars>>

\* A termination signal arrives with the handlers installed: shutdown(signal)
\* passes its latch, terminates the children and starts the 1.5 s grace timer.
ShutdownCall ==
    /\ SignalDeliverable
    /\ signals < MaxSignals
    /\ handlers
    /\ ~AlreadyShuttingDown(shuttingDown)
    /\ signals' = signals + 1
    /\ shuttingDown' = TRUE
    /\ LET st == KillChildTree(KillChildTree(KillState, "frontend"), "backend") IN
         /\ termSent' = st.termSent
         /\ killed' = st.killed
         /\ trace' = trace \o <<Ev("shutdown", 0)>> \o st.events
    /\ sd' = "grace"
    /\ UNCHANGED <<allocVars, kpVars, pc, exitCause, exitCode, BACKEND_PORT,
                   FRONTEND_PORT, BACKEND_URL, attempt, lastStatus, probing, child, env, handlers>>
    /\ UNCHANGED <<uiVars, apiVars>>

\* A termination signal arrives after shutdown has started: `return`.
ShutdownAgain ==
    /\ SignalDeliverable
    /\ signals < MaxSignals
    /\ handlers
    /\ AlreadyShuttingDown(shuttingDown)
    /\ signals' = signals + 1
    /\ UNCHANGED <<allocVars, kpVars, pc, exitCause, exitCode, BACKEND_PORT,
                   FRONTEND_PORT, BACKEND_URL, attempt, lastStatus, probing, child, env, killed, termSent, handlers,
                   shuttingDown, sd, trace>>
    /\ UNCHANGED <<uiVars, apiVars>>

\* The grace timer of shutdown fires: killProcessOnPort(BACKEND_PORT) is called.
GraceElapsed ==
    /\ Alive
    /\ sd = "grace"
    /\ sd' = "reclaim"
    /\ trace' = trace \o <<Ev("graceElapsed", 0), Ev("reclaimBackendPort", BACKEND_PORT)>>
    /\ KpCall(BACKEND_PORT, "sdB")
    /\ UNCHANGED <<allocVars, impl, isWindows, kpResolved, pc, exitCause, exitCode,
                   BACKEND_PORT, FRONTEND_PORT, BACKEND_URL, attempt, lastStatus, probing, child, env, killed,
                   termSent, handlers, shuttingDown, signals>>
    /\ UNCHANGED <<uiVars, apiVars>>

\* The backend child starts to listen on its port.
BackendListens ==
    /\ Alive
    /\ child.backend = "starting"
    /\ child' = [child EXCEPT !.backend = "listening"]
    /\ UNCHANGED env
    /\ UNCHANGED <<allocVars, kpVars, pc, exitCause, exitCode, BACKEND_PORT,
                   FRONTEND_PORT, BACKEND_URL, attempt, lastStatus, probing, killed, termSent, handlers,
                   shuttingDown, sd, signals, trace>>
    /\ UNCHANGED <<uiVars, apiVars>>

\* A child process ends, by itself or because it was told to.
ChildExits ==
    /\ Alive
    /\ \E c \in Roles :
         /\ ChildLive(c)
         /\ child' = [child EXCEPT ![c] = "exited"]
    /\ UNCHANGED env
    /\ UNCHANGED <<allocVars, kpVars, pc, exitCause, exitCode, BACKEND_PORT,
                   FRONTEND_PORT, BACKEND_URL, attempt, lastStatus, probing, killed, termSent, handlers,
                   shuttingDown, sd, signals, trace>>
    /\ UNCHANGED <<uiVars, apiVars>>

\* main() of the kill-ports script: for (const port of [FRONTEND_PORT,
\* BACKEND_PORT]) await killProcessOnPort(port)
MainStart ==
    /\ pc = "main"
    /\ kpState = "idle"
    /\ kpCalls = 0
    /\ KpCall(FRONTEND_PORT, "main1")
    /\ UNCHANGED <<allocVars, supVars, impl, isWindows, kpResolved>>
    /\ UNCHANGED <<uiVars, apiVars>>

\* ------------------------------------------------------- JavaScript values
\* The values a JSON payload can hold, tagged with their typeof/kind. A string
\* is held as its sequence of characters, an array as a sequence of values, an
\* object as a function from its own property names to values.
Undefined == [t |-> "undefined"]
Null == [t |-> "null"]
Num(n) == [t |-> "number", v |-> n]
Str(s) == [t |-> "string", v |-> s]
Bool(b) == [t |-> "boolean", v |-> b]
Arr(seq) == [t |-> "array", v |-> seq]
Obj(f) == [t |-> "object", v |-> f]
\* {} : the object without own properties.
EmptyObject == Obj([k \in {} |-> Undefined])
EmptyArray == Arr(<<>>)
EmptyString == Str(<<>>)
\* The outcome of an expression that raised a TypeError.
Thrown == [t |-> "TypeError"]

Nullish(v) == v.t \in {"undefined", "null"}

\* ToBoolean: what `!v`, `v || w` and `if (v)` test.
Truthy(v) ==
    CASE v.t \in {"undefined", "null"} -> FALSE
      [] v.t = "number" -> v.v # 0
      [] v.t = "string" -> v.v # <<>>
      [] v.t = "boolean" -> v.v
      [] OTHER -> TRUE

\* Array.isArray(v)
IsArray(v) == v.t = "array"

\* typeof v === "object" (arrays and null included, as in JavaScript)
TypeofObject(v) == v.t \in {"object", "array", "null"}

\* v.k : a TypeError on null and undefined, undefined where v has no such
\* property (primitives and arrays have none of the names read here).
Get(v, k) ==
    IF v = Thrown \/ Nullish(v) THEN Thrown
    ELSE IF v.t = "object" /\ k \in DOMAIN v.v THEN v.v[k]
    ELSE Undefined

\* v?.k
OptGet(v, k) == IF Nullish(v) THEN Undefined ELSE Get(v, k)

\* v?.k1?.k2 ... : an optional chain along the path ks.
RECURSIVE OptPath(_, _)
OptPath(v, ks) ==
    IF ks = <<>> THEN v ELSE OptPath(OptGet(v, Head(ks)), Tail(ks))

\* a || b, with b evaluated only when a is falsy.
OrElse(a, b) == IF a = Thrown THEN Thrown ELSE IF Truthy(a) THEN a ELSE b

\* a ?? b
Coalesce(a, b) == IF a = Thrown THEN Thrown ELSE IF Nullish(a) THEN b ELSE a

\* c1 || c2 || ... || cn over the operands in order.
RECURSIVE OrChain(_)
OrChain(cs) ==
    IF Len(cs) = 1 THEN Head(cs) ELSE OrElse(Head(cs), OrChain(Tail(cs)))

\* c1 ?? c2 ?? ... ?? cn over the operands in order.
RECURSIVE CoalesceChain(_)
CoalesceChain(cs) ==
    IF Len(cs) = 1 THEN Head(cs) ELSE Coalesce(Head(cs), CoalesceChain(Tail(cs)))

\* ---------------------------------- normalizeHoldingsResponse (part_002:69-97)
\* if (!data) return { accounts: [], positions: [] };
ReturnsEarly_Never(data) == FALSE
ReturnsEarly(data) == ~Truthy(data)

\* data.accounts || data.brokerageAccounts || []
AccountCandidates(data) ==
    <<Get(data, "accounts"), Get(data, "brokerageAccounts"), EmptyArray>>

\* The operands of the || chain that resolves positions, in the order written.
PositionCandidates_FlatFirst(data) ==
    <<Get(data, "holdings"),
      Get(data, "positions"),
      Get(data, "accountHoldings"),
      Get(data, "results"),
      OptPath(data, <<"data", "positions">>),
      OptPath(data, <<"data", "holdings">>),
      OptPath(data, <<"data", "results">>),
      OptPath(data, <<"data">>),
      data,
      EmptyArray>>
PositionCandidates(data) ==
    <<OptPath(data, <<"data", "positions">>),
      OptPath(data, <<"data", "holdings">>),
      OptPath(data, <<"data", "results">>),
      OptPath(data, <<"data">>),
      Get(data, "holdings"),
      Get(data, "positions"),
      Get(data, "accountHoldings"),
      Get(data, "results"),
      data,
      EmptyArray>>

\* Array.isArray(positions) ? positions : []
SequenceOrEmpty_Unchecked(positions) == positions
SequenceOrEmpty(positions) == IF IsArray(positions) THEN positions ELSE EmptyArray

\* raw: data
ResultRaw_Wrapped(data) == Obj("data" :> data)
ResultRaw(data) == data

normalizeHoldingsResponse(data) ==
    IF ReturnsEarly(data)
    THEN Obj(("accounts" :> EmptyArray) @@ ("positions" :> EmptyArray))
    ELSE LET accounts == OrChain(AccountCandidates(data))
             positions == OrChain(PositionCandidates(data))
         IN  IF accounts = Thrown \/ positions = Thrown
             THEN Thrown
             ELSE Obj(("accounts" :> accounts) @@
                      ("positions" :> SequenceOrEmpty(positions)) @@
                      ("raw" :> ResultRaw(data)))

\* ------------------------------------------ firstString (part_001:46-62)
\* typeof c === "string" && c.trim()
IsUsableString(c) == c.t = "string" /\ Trim(c.v) # <<>>

\* c.symbol || c.ticker || c.code || c.name || c.id
NestedLookup(c) ==
    OrChain(<<Get(c, "symbol"), Get(c, "ticker"), Get(c, "code"), Get(c, "name"),
              Get(c, "id")>>)

\* What one candidate yields: the trimmed string, the trimmed string of its
\* secondary lookup, or undefined when the loop moves on.
CandidateString(c) ==
    IF IsUsableString(c) THEN Str(Trim(c.v))
    ELSE IF Truthy(c) /\ TypeofObject(c) /\ IsUsableString(NestedLookup(c))
         THEN Str(Trim(NestedLookup(c).v))
         ELSE Undefined

RECURSIVE firstString(_)
firstString(candidates) ==
    IF candidates = <<>> THEN EmptyString
    ELSE IF CandidateString(Head(candidates)) # Undefined
         THEN CandidateString(Head(candidates))
         ELSE firstString(Tail(candidates))

\* A call f(a1, ..., an) evaluates every argument first: it throws when one does.
CallWith(args) ==
    IF \E i \in 1..Len(args) : args[i] = Thrown THEN Thrown ELSE firstString(args)

\* ------------------------------------------ formatTicker (part_001:64-88)
\* typeof position?.symbol === "string" ? position.symbol : ""
PlainSymbol_Unguarded(position) == Get(position, "symbol")
PlainSymbol(position) ==
    IF OptGet(position, "symbol").t = "string"
    THEN Get(position, "symbol")
    ELSE EmptyString

TickerCandidates_FlatOnly(position) ==
    <<OptPath(position, <<"ticker">>), PlainSymbol(position)>>
TickerCandidates(position) ==
    <<OptPath(position, <<"ticker">>),
      OptPath(position, <<"symbol", "symbol">>),
      OptPath(position, <<"symbol", "ticker">>),
      OptPath(position, <<"symbol", "symbol", "symbol">>),
      OptPath(position, <<"symbol", "symbol", "ticker">>),
      OptPath(position, <<"universalSymbol", "symbol">>),
      OptPath(position, <<"universalSymbol", "ticker">>),
      OptPath(position, <<"universal_symbol", "symbol">>),
      OptPath(position, <<"universal_symbol", "ticker">>),
      OptPath(position, <<"instrument", "symbol">>),
      OptPath(position, <<"instrument", "ticker">>),
      OptPath(position, <<"security", "symbol">>),
      OptPath(position, <<"security", "ticker">>),
      OptPath(position, <<"instrument", "universalSymbol", "symbol">>),
      OptPath(position, <<"instrument", "universal_symbol", "symbol">>),
      PlainSymbol(position)>>

formatTicker(position) == CallWith(TickerCandidates(position))

\* ------------------------------------ formatSecurityName (part_001:90-125)
NamePaths ==
    <<<<"name">>, <<"description">>, <<"securityName">>,
      <<"symbol", "description">>, <<"symbol", "name">>, <<"symbol", "companyName">>,
      <<"symbol", "symbol", "description">>, <<"symbol", "symbol", "name">>,
      <<"symbol", "symbol", "companyName">>,
      <<"universalSymbol", "description">>, <<"universalSymbol", "name">>,
      <<"universalSymbol", "companyName">>,
      <<"universal_symbol", "description">>, <<"universal_symbol", "name">>,
      <<"instrument", "name">>, <<"instrument", "description">>,
      <<"instrument", "securityName">>,
      <<"instrument", "symbol", "description">>,
      <<"instrument", "universalSymbol", "description">>,
      <<"instrument", "universal_symbol", "description">>,
      <<"security", "name">>, <<"security", "description">>,
      <<"security", "securityName">>, <<"security", "companyName">>>>

NameCandidates(position) ==
    [i \in 1..Len(NamePaths) |-> OptPath(position, NamePaths[i])]

formatSecurityName(position) == CallWith(NameCandidates(position))

\* ---------------------------- one row of the holdings table (part_001:788-810)
\* p.quantity ?? p.units ?? p.shares ?? p?.position?.quantity
RowQuantity_Truthy(p) ==
    OrChain(<<Get(p, "quantity"), Get(p, "units"), Get(p, "shares"),
              OptPath(p, <<"position", "quantity">>)>>)
RowQuantity(p) ==
    CoalesceChain(<<Get(p, "quantity"), Get(p, "units"), Get(p, "shares"),
                    OptPath(p, <<"position", "quantity">>)>>)

\* p.price ?? p?.pricePerShare ?? p?.quote?.last ?? p?.lastPrice
RowPrice(p) ==
    CoalesceChain(<<Get(p, "price"), OptGet(p, "pricePerShare"),
                    OptPath(p, <<"quote", "last">>), OptGet(p, "lastPrice")>>)

\* The callback of positions.map for the record p: the cells of its row, or the
\* TypeError it raised.
RenderRow(p) ==
    IF RowQuantity(p) = Thrown \/ RowPrice(p) = Thrown
    THEN [threw |-> TRUE, symbol |-> formatTicker(p), name |-> formatSecurityName(p),
          quantity |-> Undefined, price |-> Undefined]
    ELSE [threw |-> FALSE, symbol |-> formatTicker(p), name |-> formatSecurityName(p),
          quantity |-> RowQuantity(p), price |-> RowPrice(p)]

\* ------------------------------------------------ payloads of the holdings view
\* Marks a property an object does not have.
Absent == [t |-> "absent"]
\* The object with the properties of f that are not Absent.
MakeObj(f) == Obj([k \in {n \in DOMAIN f : f[n] # Absent} |-> f[k]])

Padded(s) == <<" ">> \o s \o <<" ">>
Blank == <<" ", " ">>
AAPL == <<"A", "A", "P", "L">>
MSFT == <<"M", "S", "F", "T">>
SSTK == <<"S", "S", "T", "K">>
TSLA == <<"T", "S", "L", "A">>
GOOG == <<"G", "O", "O", "G">>
TeslaInc == <<"T", "e", "s", "l", "a">>

\* Position records as the connectors return them (part_001:64-125 lists the
\* observed shapes), one set of options per property.
PositionObjects ==
    LET TickerFields ==
            {Absent, Str(SSTK), Str(Blank), Num(5), Obj("id" :> Str(GOOG)),
             Obj(("symbol" :> Num(5)) @@ ("ticker" :> Str(SSTK)))}
        SymbolFields ==
            {Absent, Null, Num(5), EmptyString, EmptyObject,
             Str(AAPL), Str(Padded(MSFT)),
             Obj("symbol" :> Str(TSLA)),
             Obj("symbol" :> Null),
             Obj("description" :> Str(TeslaInc)),
             Obj("symbol" :> Obj("symbol" :> Str(TSLA))),
             Obj("symbol" :> Obj("symbol" :> Str(Padded(TSLA)))),
             Obj("symbol" :> Obj("symbol" :> Str(Blank))),
             Obj("symbol" :> Obj("symbol" :> Num(5))),
             Obj("symbol" :> Obj("ticker" :> Str(TSLA))),
             Obj(("symbol" :> Obj("symbol" :> Str(TSLA))) @@ ("ticker" :> Str(MSFT))),
             Obj("symbol" :> Obj(("symbol" :> Str(TSLA)) @@
                                 ("description" :> Str(TeslaInc))))}
        UniversalSymbolFields == {Absent, Obj("symbol" :> Str(GOOG))}
        InstrumentFields ==
            {Absent, Obj("name" :> Str(TeslaInc)),
             Obj("universalSymbol" :> Obj("symbol" :> Str(MSFT)))}
        NameFields == {Absent, Str(TeslaInc), Str(Blank)}
        QuantityFields == {Absent, Null, Num(0), Num(10)}
    IN  {MakeObj([ticker |-> tk, symbol |-> sy, universalSymbol |-> us,
                  instrument |-> ins, name |-> nm, quantity |-> q, units |-> Num(3)]) :
            tk \in TickerFields, sy \in SymbolFields, us \in UniversalSymbolFields,
            ins \in InstrumentFields, nm \in NameFields, q \in QuantityFields}

\* A position need not be an object at all.
PositionValues ==
    PositionObjects \cup {Null, Undefined, Num(7), Bool(TRUE), Str(AAPL)}

\* Longest list of positions a wrapped payload carries.
MaxRows == 2

SampleRecords ==
    {Obj(("symbol" :> Str(AAPL)) @@ ("quantity" :> Num(10))),
     Obj(("symbol" :> Str(Padded(MSFT))) @@ ("quantity" :> Num(0))),
     Obj(("ticker" :> Str(SSTK)) @@ ("symbol" :> Str(AAPL)) @@ ("quantity" :> Num(2)))}

\* The non-empty lists of sample records.
PositionLists == UNION {[1..n -> SampleRecords] : n \in 1..MaxRows}

ListA == <<Obj(("symbol" :> Str(AAPL)) @@ ("quantity" :> Num(10)))>>
ListB == <<Obj(("symbol" :> Str(TSLA)) @@ ("units" :> Num(3))),
           Obj(("symbol" :> Str(AAPL)) @@ ("quantity" :> Num(10)))>>

\* Object payloads, one set of options per property the normalizer reads, plus
\* one it does not read.
PayloadObjects ==
    LET AccountsFields ==
            {Absent, EmptyArray, Str(AAPL), Arr(<<Obj("id" :> Str(GOOG))>>)}
        BrokerageAccountsFields == {Absent, Arr(<<Obj("id" :> Str(MSFT))>>)}
        DataFields ==
            {Absent, Null, Str(AAPL), EmptyArray, EmptyObject, Arr(ListA),
             Obj("other" :> Num(1)),
             Obj("holdings" :> Arr(ListB)),
             Obj("results" :> Arr(ListA)),
             Obj(("positions" :> EmptyArray) @@ ("holdings" :> Arr(ListB))),
             Obj(("positions" :> Num(0)) @@ ("results" :> Arr(ListB))),
             Obj(("positions" :> EmptyObject) @@ ("holdings" :> Arr(ListB)))}
            \cup {Obj("positions" :> Arr(l)) : l \in PositionLists}
        HoldingsFields == {Absent, Arr(ListA), EmptyObject}
        PositionsFields == {Absent, Arr(ListB)}
        AccountHoldingsFields == {Absent, Arr(ListA)}
        ResultsFields == {Absent, Arr(ListB)}
        OtherFields == {Absent, Num(1)}
    IN  {MakeObj([accounts |-> ac, brokerageAccounts |-> ba, data |-> d,
                  holdings |-> h, positions |-> p, accountHoldings |-> ah,
                  results |-> r, other |-> o]) :
            ac \in AccountsFields, ba \in BrokerageAccountsFields, d \in DataFields,
            h \in HoldingsFields, p \in PositionsFields, ah \in AccountHoldingsFields,
            r \in ResultsFields, o \in OtherFields}

PayloadPrimitives ==
    {Null, Undefined, Num(0), Num(7), EmptyString, Str(AAPL), Bool(FALSE), Bool(TRUE)}

\* getUserAccountPositions commonly returns the array of positions itself.
PayloadArrays ==
    {EmptyArray} \cup {Arr(<<p>>) : p \in PositionValues}
                 \cup {Arr(l) : l \in PositionLists}

Payloads == PayloadPrimitives \cup PayloadArrays \cup PayloadObjects

\* ------------------------------------------------- steps of the holdings view
\* Not computed yet.
NotYet == [t |-> "pending"]

\* const normalized = normalizeHoldingsResponse(holdingsData)
Normalize ==
    /\ normalized = NotYet
    /\ normalized' = normalizeHoldingsResponse(holdingsData)
    /\ UNCHANGED <<holdingsData, renormalized, rows>>
    /\ UNCHANGED <<allocVars, supVars, kpVars, apiVars>>

\* normalizeHoldingsResponse applied to the raw field of its own result.
NormalizeRaw ==
    /\ normalized \notin {NotYet, Thrown}
    /\ renormalized = NotYet
    /\ rows = <<>>
    /\ renormalized' = normalizeHoldingsResponse(Get(normalized, "raw"))
    /\ UNCHANGED <<holdingsData, normalized, rows>>
    /\ UNCHANGED <<allocVars, supVars, kpVars, apiVars>>

\* positions.map((p, idx) => ...) renders the next row; a row that throws ends
\* the rendering.
RenderNextRow ==
    /\ normalized \notin {NotYet, Thrown}
    /\ IsArray(Get(normalized, "positions"))
    /\ Len(rows) < Len(Get(normalized, "positions").v)
    /\ IF rows = <<>> THEN TRUE ELSE ~rows[Len(rows)].threw
    /\ rows' = Append(rows, RenderRow(Get(normalized, "positions").v[Len(rows) + 1]))
    /\ UNCHANGED <<holdingsData, normalized, renormalized>>
    /\ UNCHANGED <<allocVars, supVars, kpVars, apiVars>>

UiInit ==
    /\ holdingsData = Undefined
    /\ normalized = NotYet
    /\ renormalized = NotYet
    /\ rows = <<>>

\* ------------------------------------- backend proxy (server.js, server_supabase.js)
UserIds == {"u1", "u2"}
Secrets == {"s1", "s2"}
\* Requests handled in one run.
MaxRequests == 2

\* The routes each file registers that reach the remote service or the store.
RoutesOf(v) ==
    IF v = "memory"
    THEN {"status", "brokerages", "listUsers", "register", "delete", "loginGet",
          "loginPost", "accounts", "holdings"}
    ELSE {"status", "listUsers", "register", "delete", "loginGet"}

\* Status codes of a failed remote call; 0: the call failed without a response
\* (error.response is undefined).
UpstreamStatuses == {0, 401, 503}

\* The remote call a route makes once its request is validated.
RemoteApi(route) ==
    CASE route = "status" -> "apiStatus.check"
      [] route = "brokerages" -> "listAllBrokerages"
      [] route = "listUsers" -> "listSnapTradeUsers"
      [] route = "register" -> "registerSnapTradeUser"
      [] route = "delete" -> "deleteSnapTradeUser"
      [] route \in {"loginGet", "loginPost"} -> "loginSnapTradeUser"
      [] route = "accounts" -> "listUserAccounts"
      [] route = "holdings" -> "getUserAccountPositions"

\* The 400 guards: if (!userId) / if (!userId || !userSecret) / ...
\* DELETE takes userId from the path and has no guard.
Rejects(route, r) ==
    CASE route = "register" -> r.userId = ""
      [] route \in {"loginGet", "loginPost", "accounts", "holdings"} ->
            r.userId = "" \/ ~r.complete
      [] OTHER -> FALSE

Reply(status, body) == [status |-> status, body |-> body]
NoReply == Reply(0, "none")

\* The catch block of a route: the status and the body of the error response.
\* error.response?.status || 500 ; error.response?.data || error.message
ErrorStatus(v, route, upstream) ==
    IF v = "supabase" \/ route = "status" \/ upstream = 0 THEN 500 ELSE upstream

ErrorReply(v, route, upstream) ==
    Reply(ErrorStatus(v, route, upstream),
          IF upstream = 0 THEN "error.message" ELSE "error.response.data")

\* What the first await of a validated request waits for.
FirstAwait(v, route) ==
    IF route = "register" THEN (IF v = "memory" THEN "awaitList" ELSE "awaitLookup")
    ELSE IF route = "listUsers" /\ v = "supabase" THEN "awaitTable"
    ELSE "awaitRemote"

Call(api, ok, status) == [api |-> api, ok |-> ok, status |-> status]

\* A request arrives; the handler runs to its first await or to its response.
ReceiveRequest ==
    /\ hpc \in {"idle", "done"}
    /\ req.n < MaxRequests
    /\ \E route \in RoutesOf(variant), u \in UserIds \cup {""}, complete \in BOOLEAN :
          LET r == [n |-> req.n + 1, route |-> route, userId |-> u,
                    complete |-> complete, listed |-> u \in remoteUsers,
                    store |-> userSecrets]
          IN  /\ route = "delete" => u # ""
              /\ req' = r
              /\ calls' = <<>>
              /\ IF Rejects(route, r)
                 THEN /\ hpc' = "done"
                      /\ response' = Reply(400, "required")
                 ELSE /\ hpc' = FirstAwait(variant, route)
                      /\ response' = NoReply
    /\ UNCHANGED <<variant, remoteUsers, userSecrets>>
    /\ UNCHANGED <<allocVars, supVars, kpVars, uiVars>>

\* server.js:294-301: listSnapTradeUsers returns or fails; the inner catch logs
\* a failure and falls through to the registration.
ListReply ==
    /\ hpc = "awaitList"
    /\ \E ok \in BOOLEAN, upstream \in UpstreamStatuses :
          /\ ok => upstream = 0
          /\ calls' = Append(calls, Call("listSnapTradeUsers", ok, upstream))
          /\ IF ok /\ req.userId \in remoteUsers
             THEN /\ hpc' = "done"
                  /\ response' = Reply(409, "User already exists")
             ELSE /\ hpc' = "awaitRemote"
                  /\ response' = NoReply
    /\ UNCHANGED <<variant, remoteUsers, userSecrets, req>>
    /\ UNCHANGED <<allocVars, supVars, kpVars, uiVars>>

\* server_supabase.js:93-98: the lookup in user_secrets returns a row or none
\* (findErr is not looked at).
LookupReply ==
    /\ hpc = "awaitLookup"
    /\ \E tableOk \in BOOLEAN :
          IF tableOk /\ userSecrets[req.userId] # "none"
          THEN /\ hpc' = "done"
               /\ response' = Reply(409, "User already exists")
          ELSE /\ hpc' = "awaitRemote"
               /\ response' = NoReply
    /\ UNCHANGED <<variant, remoteUsers, userSecrets, req, calls>>
    /\ UNCHANGED <<allocVars, supVars, kpVars, uiVars>>

\* server_supabase.js:74-84: GET /api/users reads the table only.
TableReply ==
    /\ hpc = "awaitTable"
    /\ \E tableOk \in BOOLEAN :
          response' = IF tableOk THEN Reply(200, "data") ELSE Reply(500, "error.message")
    /\ hpc' = "done"
    /\ UNCHANGED <<variant, remoteUsers, userSecrets, req, calls>>
    /\ UNCHANGED <<allocVars, supVars, kpVars, uiVars>>

\* What a successful remote call changes at the remote service.
RemoteAfter(route, u, users) ==
    CASE route = "register" -> users \cup {u}
      [] route = "delete" -> users \ {u}
      [] OTHER -> users

\* What the handler then writes to its store: userSecrets.set (server.js:309),
\* storeUserSecret / deleteUserSecret (server_supabase.js:104, 116). server.js
\* leaves the secret of a deleted user in the Map.
StoreAfter(v, route, u, secret, store) ==
    CASE route = "register" -> [store EXCEPT ![u] = secret]
      [] route = "delete" /\ v = "supabase" -> [store EXCEPT ![u] = "none"]
      [] OTHER -> store

\* The awaited remote call of the route returns or fails.
RemoteReply ==
    /\ hpc = "awaitRemote"
    /\ \E ok \in BOOLEAN, upstream \in UpstreamStatuses, secret \in Secrets :
          /\ ok => upstream = 0
          /\ req.route # "register" => secret = "s1"
          /\ calls' = Append(calls, Call(RemoteApi(req.route), ok, upstream))
          /\ IF ok
             THEN /\ remoteUsers' = RemoteAfter(req.route, req.userId, remoteUsers)
                  /\ userSecrets' = StoreAfter(variant, req.route, req.userId, secret,
                                               userSecrets)
                  /\ response' = Reply(200, "data")
             ELSE /\ response' = ErrorReply(variant, req.route, upstream)
                  /\ UNCHANGED <<remoteUsers, userSecrets>>
    /\ hpc' = "done"
    /\ UNCHANGED <<variant, req>>
    /\ UNCHANGED <<allocVars, supVars, kpVars, uiVars>>

ApiInit ==
    /\ variant = "memory"
    /\ remoteUsers = {}
    /\ userSecrets = [u \in UserIds |-> "none"]
    /\ req = [n |-> 0, route |-> "none", userId |-> "", complete |-> FALSE,
              listed |-> FALSE, store |-> [u \in UserIds |-> "none"]]
    /\ hpc = "idle"
    /\ calls = <<>>
    /\ response = NoReply

\* ---------------------------------------------------------------- initial states
SupInit(start) ==
    /\ pc = start
    /\ exitCause = "none"
    /\ exitCode = -1
    /\ attempt = 0
    /\ probing = "none"
    /\ child = [c \in Roles |-> "none"]
    /\ killed = [c \in Roles |-> FALSE]
    /\ termSent = [c \in Roles |-> 0]
    /\ handlers = FALSE
    /\ shuttingDown = FALSE
    /\ sd = "idle"
    /\ signals = 0
    /\ trace = <<>>
    /\ BACKEND_URL = NoUrl
    /\ env = [c \in Roles |-> NoEnv]
    /\ lastStatus = NoStatus

KpInit ==
    /\ kpState = "idle"
    /\ kpPort = 0
    /\ kpCaller = "none"
    /\ kpBuf = <<>>
    /\ kpPending = <<>>
    /\ kpKills = <<>>
    /\ kpCalls = 0
    /\ kpResolved = 0

\* The options startServices passes (part_000:144-147) with the defaults of
\* findFreePorts (findFreePorts.js:41-46), scaled to the modelled ports: the
\* frontend's preferred port is the start of the frontend range (3000), the
\* backend range starts one port above it (3001), the backend's preferred port
\* lies in the backend range above its start (3005), and both ranges run to the
\* top of the modelled ports.
SupervisorOptions ==
    [preferredBackendPort |-> MaxPort, preferredFrontendPort |-> 1,
     backendRangeStart |-> 2, backendRangeEnd |-> MaxPort,
     frontendRangeStart |-> 1, frontendRangeEnd |-> MaxPort]

\* ------------------------------------------- specification of the supervisor
\* One run of start-dev on one platform, for every occupancy of the ports (the
\* occupancy stays as it is while findFreePorts runs; SpecAlloc lets it change).
Init ==
    /\ AllocInit({SupervisorOptions})
    /\ SupInit("init")
    /\ BACKEND_PORT = 0
    /\ FRONTEND_PORT = 0
    /\ KpInit
    /\ impl = "dev"
    /\ isWindows \in BOOLEAN
    /\ UiInit
    /\ ApiInit

Next ==
    \/ StartServices
    \/ AllocProbeDone
    \/ KpData
    \/ KpLookupError
    \/ KpClose
    \/ KpSettle
    \/ ProbeReply
    \/ ProbeHangs
    \/ NextProbe
    \/ HealthTimeout
    \/ RegisterHandlers
    \/ SignalDefault
    \/ ShutdownCall
    \/ ShutdownAgain
    \/ GraceElapsed
    \/ BackendListens
    \/ ChildExits

Spec == Init /\ [][Next]_vars

\* Timers fire, and a probe that can be answered is answered: the await of
\* axios.get and the 1 s pause of waitForBackend end.
FairSpec == Spec /\ WF_vars(ProbeReply) /\ WF_vars(NextProbe) /\ WF_vars(HealthTimeout)

\* ------------------------------------------- specification of the allocator
\* findFreePorts on its own, called with every option object over the ports.
AllocCall ==
    /\ CallFindFreePorts
    /\ UNCHANGED <<supVars, kpVars>>
    /\ UNCHANGED <<uiVars, apiVars>>

AllocProbe ==
    /\ AllocStep
    /\ UNCHANGED <<supVars, kpVars>>
    /\ UNCHANGED <<uiVars, apiVars>>

InitAlloc ==
    /\ AllocInit(AllocOptions)
    /\ SupInit("init")
    /\ BACKEND_PORT = 0
    /\ FRONTEND_PORT = 0
    /\ KpInit
    /\ impl = "dev"
    /\ isWindows = FALSE
    /\ UiInit
    /\ ApiInit

NextAlloc ==
    \/ AllocCall
    \/ AllocProbe
    \/ OccupancyChange

SpecAlloc == InitAlloc /\ [][NextAlloc]_vars

\* ---------------------------------- specification of killProcessOnPort alone
\* Either implementation, on either platform, awaited for two ports in turn.
InitReclaim ==
    /\ AllocInit({CHOOSE o \in AllocOptions : TRUE})
    /\ occupied = {}
    /\ SupInit("main")
    /\ FRONTEND_PORT \in Ports
    /\ BACKEND_PORT \in Ports
    /\ KpInit
    /\ impl \in {"dev", "killPorts"}
    /\ isWindows \in BOOLEAN
    /\ UiInit
    /\ ApiInit

NextReclaim ==
    \/ MainStart
    \/ KpData
    \/ KpLookupError
    \/ KpClose
    \/ KpSettle

SpecReclaim == InitReclaim /\ [][NextReclaim]_vars

\* Every enabled step of the script is eventually taken: timers fire and the
\* lookup command ends.
FairSpecReclaim == SpecReclaim /\ WF_vars(NextReclaim)

\* --------------------------------------- specification of the holdings view
\* The supervisor's variables while another part of the program is looked at.
SupIdle ==
    /\ AllocInit({SupervisorOptions})
    /\ occupied = {}
    /\ SupInit("init")
    /\ BACKEND_PORT = 0
    /\ FRONTEND_PORT = 0
    /\ KpInit
    /\ impl = "dev"
    /\ isWindows = FALSE

\* normalizeHoldingsResponse and the row renderer applied to every payload.
InitHoldings ==
    /\ SupIdle
    /\ ApiInit
    /\ holdingsData \in Payloads
    /\ normalized = NotYet
    /\ renormalized = NotYet
    /\ rows = <<>>

NextHoldings ==
    \/ Normalize
    \/ NormalizeRaw
    \/ RenderNextRow

SpecHoldings == InitHoldings /\ [][NextHoldings]_vars

\* --------------------------------------- specification of the backend proxy
\* Either backend file serving requests one after the other, for every set of
\* users the remote service knows; server.js starts with an empty Map, the
\* table of server_supabase.js persists.
InitBackend ==
    /\ SupIdle
    /\ UiInit
    /\ variant \in {"memory", "supabase"}
    /\ remoteUsers \in SUBSET UserIds
    /\ userSecrets \in [UserIds -> {"none", "s1"}]
    /\ variant = "memory" => userSecrets = [u \in UserIds |-> "none"]
    /\ req = [n |-> 0, route |-> "none", userId |-> "", complete |-> FALSE,
              listed |-> FALSE, store |-> userSecrets]
    /\ hpc = "idle"
    /\ calls = <<>>
    /\ response = NoReply

NextBackend ==
    \/ ReceiveRequest
    \/ ListReply
    \/ LookupReply
    \/ TableReply
    \/ RemoteReply

SpecBackend == InitBackend /\ [][NextBackend]_vars
\* ------------------------------------------------- claims on the allocator
\* The allocator has returned and no port was bound or released meanwhile, so
\* `occupied` is the occupancy every probe saw.
ReturnedStatic == apc = "done" /\ occChanges = 0

Min(S) == CHOOSE x \in S : \A y \in S : x <= y

\* Free ports of start..end, without the ports of `excluded`.
FreeInRange(start, end, occ, excluded) ==
    {p \in start..end : p \notin occ /\ p \notin excluded}

\* C6: whenever findFreePorts returns, backendPort and frontendPort differ, for
\* every choice of preferred ports and ranges and every occupancy, also one
\* that changes between the probes.
C6_DistinctPorts == apc = "done" => backendPort # frontendPort

\* C6 witness: a return after a collision, with occupancy changed on the way.
C6_Witness == apc = "done" /\ rescanned /\ occChanges > 0

\* C7: distinct preferred ports that are both free are returned exactly, and
\* the collision re-scan is not entered.
C7_PreferredReturned ==
    (/\ ReturnedStatic
     /\ opts.preferredBackendPort # opts.preferredFrontendPort
     /\ opts.preferredBackendPort \notin occupied
     /\ opts.preferredFrontendPort \notin occupied)
    => /\ backendPort = opts.preferredBackendPort
       /\ frontendPort = opts.preferredFrontendPort
       /\ ~rescanned

\* C7 witness: free distinct preferred ports that lie outside their own ranges
\* while those ranges have free ports of their own.
C7_Witness ==
    /\ ReturnedStatic
    /\ opts.preferredBackendPort # opts.preferredFrontendPort
    /\ opts.preferredBackendPort \notin occupied
    /\ opts.preferredFrontendPort \notin occupied
    /\ opts.preferredBackendPort \notin opts.backendRangeStart..opts.backendRangeEnd
    /\ opts.preferredFrontendPort \notin opts.frontendRangeStart..opts.frontendRangeEnd
    /\ FreeInRange(opts.backendRangeStart, opts.backendRangeEnd, occupied, {}) # {}
    /\ FreeInRange(opts.frontendRangeStart, opts.frontendRangeEnd, occupied, {}) # {}

\* C8: a role whose preferred port is occupied gets the lowest free port of its
\* range; for the frontend the port chosen for the backend is not a candidate.
C8_LowestFree ==
    ReturnedStatic =>
      /\ opts.preferredBackendPort \in occupied =>
           LET c == FreeInRange(opts.backendRangeStart, opts.backendRangeEnd,
                                occupied, {})
           IN  c # {} /\ backendPort = Min(c)
      /\ opts.preferredFrontendPort \in occupied =>
           LET c == FreeInRange(opts.frontendRangeStart, opts.frontendRangeEnd,
                                occupied, {backendPort})
           IN  c # {} /\ frontendPort = Min(c)

\* C8 witness: both preferred ports occupied, the frontend scan ran into the
\* backend's port and had to go past it.
C8_Witness ==
    /\ ReturnedStatic
    /\ opts.preferredBackendPort \in occupied
    /\ opts.preferredFrontendPort \in occupied
    /\ rescanned
    /\ frontendPort > backendPort
    /\ backendPort > opts.backendRangeStart

\* ------------------------------------------------ claims on the supervisor
\* How often the supervisor has done `name`.
Count(name) == Cardinality({i \in 1..Len(trace) : trace[i].ev = name})

\* The steps of a startup, in the order of startServices.
StartupOrder ==
    <<"allocated", "cleanBackendPort", "cleanFrontendPort", "spawnBackend",
      "healthy", "spawnFrontend", "running">>

\* The steps of a shutdown, in the order of shutdown(signal).
ShutdownOrder ==
    <<"shutdown", "termFrontend", "termBackend", "graceElapsed",
      "reclaimBackendPort", "reclaimFrontendPort", "exit">>

Range(seq) == {seq[i] : i \in 1..Len(seq)}

\* What a shutdown call does, each thing at most once.
TeardownOnce ==
    /\ \A c \in Roles : termSent[c] <= 1
    /\ \A e \in Range(ShutdownOrder) : Count(e) <= 1
    /\ Count("killedBySignal") + Count("exit") + Count("crash") <= 1

\* A shutdown call that finds the latch set changes nothing.
LateShutdownHasNoEffect ==
    (shuttingDown /\ signals' = signals + 1)
    => UNCHANGED <<allocVars, kpVars, pc, exitCause, exitCode, BACKEND_PORT,
                   FRONTEND_PORT, BACKEND_URL, attempt, lastStatus, probing, child, env, killed, termSent, handlers,
                   shuttingDown, sd, trace>>

\* C1: however often shutdown is invoked, each child is sent a terminate at
\* most once, each port is reclaimed at most once, the process ends once, and
\* an invocation after the first leaves the whole state as it was.
C1_ShutdownOnce == []TeardownOnce /\ [][LateShutdownHasNoEffect]_vars

\* C1 witness: two signals were handled and the one teardown ran to exit(0).
C1_Witness ==
    /\ signals >= 2
    /\ Count("shutdown") = 1
    /\ exitCause = "exit"
    /\ exitCode = 0
    /\ termSent = [c \in Roles |-> 1]

\* A termination signal reached the supervisor after it had spawned a child.
SignalAfterSpawn ==
    \E i, j \in 1..Len(trace) :
       /\ i < j
       /\ trace[i].ev \in {"spawnBackend", "spawnFrontend"}
       /\ trace[j].ev \in {"killedBySignal", "shutdown"}

\* C2 (as claimed): once the supervisor has ended after a termination signal
\* that came when a child was already spawned, every spawned child was sent a
\* terminate and both ports went through port reclamation.
C2_SignalRunsShutdown ==
    (~Alive /\ SignalAfterSpawn)
    => /\ \A c \in Roles : child[c] # "none" => termSent[c] >= 1
       /\ Count("reclaimBackendPort") = 1
       /\ Count("reclaimFrontendPort") = 1

\* C3: when waitForBackend gives up, 30 probes have failed in a row, the backend
\* child is sent a terminate, the process exits with status 1 and no frontend
\* was ever spawned; nor is there a frontend while the last pause runs.
C3_HealthTimeoutAborts ==
    /\ Count("healthTimeout") > 0 =>
          /\ attempt = MaxRetries
          /\ termSent["backend"] = 1
          /\ exitCause = "exit"
          /\ exitCode = 1
          /\ Count("spawnFrontend") = 0
          /\ child["frontend"] = "none"
    /\ (pc = "waiting" /\ probing = "sleeping" /\ attempt + 1 = MaxRetries) =>
          child["frontend"] = "none"
    /\ attempt = MaxRetries => Count("healthTimeout") > 0

\* C3 witness: the supervisor gave up and exited 1 while the backend was up and
\* answering its probes with an error status.
C3_Witness ==
    /\ Count("healthTimeout") = 1
    /\ exitCode = 1
    /\ child["backend"] = "listening"

\* C4: the startup steps happen one after the other in the order of
\* StartupOrder, none left out and nothing in between, and the two startup
\* reclamations are for the allocated backend and frontend port, in that order.
C4_StartupOrder ==
    /\ \A i \in 1..Len(trace) :
         trace[i].ev \in Range(StartupOrder) =>
            i <= Len(StartupOrder) /\ trace[i].ev = StartupOrder[i]
    /\ \A i \in 1..Len(trace) :
         /\ trace[i].ev = "cleanBackendPort" =>
               trace[i].port = backendPort /\ apc = "done"
         /\ trace[i].ev = "cleanFrontendPort" => trace[i].port = frontendPort
    /\ child["backend"] # "none" => Count("cleanFrontendPort") = 1
    /\ child["frontend"] # "none" => Count("healthy") = 1

\* C4 witness: a startup that went all the way.
C4_Witness == pc = "running" /\ Len(trace) = Len(StartupOrder)

\* The part of the trace from the shutdown call on.
ShutdownTrace ==
    LET first == CHOOSE i \in 1..Len(trace) : trace[i].ev = "shutdown"
    IN  SubSeq(trace, first, Len(trace))

\* C5 (as claimed): from the shutdown call on the steps are those of
\* ShutdownOrder in that order, the reclamations are for the backend and the
\* frontend port, and when the process has ended its status is 0.
C5_ShutdownOrderExit0 ==
    Count("shutdown") > 0 =>
       /\ Len(ShutdownTrace) <= Len(ShutdownOrder)
       /\ \A i \in 1..Len(ShutdownTrace) : ShutdownTrace[i].ev = ShutdownOrder[i]
       /\ \A i \in 1..Len(ShutdownTrace) :
            /\ ShutdownTrace[i].ev = "reclaimBackendPort" =>
                  ShutdownTrace[i].port = BACKEND_PORT
            /\ ShutdownTrace[i].ev = "reclaimFrontendPort" =>
                  ShutdownTrace[i].port = FRONTEND_PORT
       /\ ~Alive => exitCode = 0

\* A role whose preferred port is occupied and whose range has no free port.
Exhausted(preferred, start, end) ==
    preferred \in occupied /\ FreeInRange(start, end, occupied, {}) = {}

\* C9: findFreePorts does not return when a role's preferred port is occupied
\* and its range has no free port, and when findFreePorts throws the process
\* exits with status 1 having spawned no child and reclaimed no port.
C9_AllocationFailureAborts ==
    /\ (apc = "done" /\ occChanges = 0) =>
          /\ ~Exhausted(opts.preferredBackendPort, opts.backendRangeStart,
                        opts.backendRangeEnd)
          /\ ~Exhausted(opts.preferredFrontendPort, opts.frontendRangeStart,
                        opts.frontendRangeEnd)
    /\ apc = "threw" =>
          /\ exitCause = "exit"
          /\ exitCode = 1
          /\ \A c \in Roles : child[c] = "none"
          /\ kpCalls = 0
          /\ trace = <<Ev("exit", 1)>>

\* C9 witness: the backend's preferred port and whole range were occupied.
C9_Witness ==
    /\ apc = "threw"
    /\ exitCode = 1
    /\ Exhausted(opts.preferredBackendPort, opts.backendRangeStart,
                 opts.backendRangeEnd)

\* The allocator half of C9 for every option object (under SpecAlloc).
ExhaustedNeverReturns ==
    (apc = "done" /\ occChanges = 0) =>
          /\ ~Exhausted(opts.preferredBackendPort, opts.backendRangeStart,
                        opts.backendRangeEnd)
          /\ ~Exhausted(opts.preferredFrontendPort, opts.frontendRangeStart,
                        opts.frontendRangeEnd)

\* ------------------------------------------- claims on killProcessOnPort
\* C10 (as claimed): the promise of every call of killProcessOnPort is
\* eventually resolved, whatever the lookup and the kill command do.
C10_AlwaysResolves ==
    \A n \in 1..2 : [](kpCalls >= n => <>(kpResolved >= n))

\* ------------------------------------------------- claims on the holdings view
\* The result object of normalizeHoldingsResponse has been computed.
Normalized == normalized \notin {NotYet, Thrown}

\* C11: normalizeHoldingsResponse is total: for every input (null, undefined, a
\* number, a string, a boolean, an array, an object of any shape) it returns a
\* result object with accounts and positions and never throws.
C11_NormalizeTotal ==
    /\ normalized # Thrown
    /\ renormalized # Thrown
    /\ normalized # NotYet =>
          /\ normalized.t = "object"
          /\ {"accounts", "positions"} \subseteq DOMAIN normalized.v

\* A truthy primitive was normalized: every property read on it yields undefined.
C11_Witness ==
    /\ holdingsData \in {Num(7), Str(AAPL), Bool(TRUE)}
    /\ Normalized

\* C12: for every input x, including null, undefined, 0, false and the empty
\* string, the result has a raw field that is the original input x.
C12_RawIsInput ==
    Normalized =>
        /\ "raw" \in DOMAIN normalized.v
        /\ normalized.v["raw"] = holdingsData

\* C13: normalizeHoldingsResponse(normalizeHoldingsResponse(x).raw) has the same
\* positions and the same accounts as normalizeHoldingsResponse(x).
C13_IdempotentThroughRaw ==
    renormalized # NotYet =>
        /\ Get(renormalized, "positions") = Get(normalized, "positions")
        /\ Get(renormalized, "accounts") = Get(normalized, "accounts")

\* The round trip was made for a payload that resolves positions and accounts.
C13_Witness ==
    /\ renormalized # NotYet
    /\ Get(normalized, "positions") # EmptyArray
    /\ Get(normalized, "accounts") # EmptyArray

\* The property names normalizeHoldingsResponse reads.
RecognizedFields ==
    {"accounts", "brokerageAccounts", "holdings", "positions", "accountHoldings",
     "results", "data"}

Unrecognized(x) == x.t = "object" /\ DOMAIN x.v \cap RecognizedFields = {}

\* C14: for the empty object, and for any non-array object with none of the
\* recognized account or position fields, the result is accounts = [],
\* positions = [] and raw equal to the input.
C14_UnrecognizedIsEmpty ==
    (Normalized /\ Unrecognized(holdingsData)) =>
        normalized = Obj(("accounts" :> EmptyArray) @@ ("positions" :> EmptyArray) @@
                         ("raw" :> holdingsData))

\* An object that has a property, but none of the recognized ones, was normalized.
C14_Witness ==
    /\ Normalized
    /\ Unrecognized(holdingsData)
    /\ holdingsData # EmptyObject

\* The payload is of shape {data: {positions: P}} with P a non-empty sequence.
WrappedPositions(x) ==
    /\ x.t = "object"
    /\ OptPath(x, <<"data", "positions">>).t = "array"
    /\ OptPath(x, <<"data", "positions">>).v # <<>>

\* The record the i-th rendered row was made from.
RowRecord(i) == Get(normalized, "positions").v[i]

\* The record's symbol is a plain non-blank string and its quantity a number.
PlainRecord(p) ==
    /\ p.t = "object"
    /\ {"symbol", "quantity"} \subseteq DOMAIN p.v
    /\ IsUsableString(p.v["symbol"])
    /\ p.v["quantity"].t = "number"

\* The properties formatTicker consults before the plain symbol string.
TickerContainers ==
    {"ticker", "universalSymbol", "universal_symbol", "instrument", "security"}

\* C15 (as stated): for an input of shape {data: {positions: P}} with P a
\* non-empty sequence the positions are P, in order, and for a record whose
\* symbol is a plain non-blank string s and whose quantity is a number q the
\* ticker resolves to s and the quantity to q.
C15_WrappedPositionsAsStated ==
    /\ (Normalized /\ WrappedPositions(holdingsData)) =>
          Get(normalized, "positions") = OptPath(holdingsData, <<"data", "positions">>)
    /\ \A i \in 1..Len(rows) :
          PlainRecord(RowRecord(i)) =>
              /\ rows[i].symbol = RowRecord(i).v["symbol"]
              /\ rows[i].quantity = RowRecord(i).v["quantity"]

\* C15 (amended): the positions are P, in order; the quantity resolves to q; the
\* ticker resolves to s with its surrounding whitespace removed, provided the
\* record has none of the properties ticker, universalSymbol, universal_symbol,
\* instrument and security, which formatTicker consults first.
C15_WrappedPositionsResolve ==
    /\ (Normalized /\ WrappedPositions(holdingsData)) =>
          Get(normalized, "positions") = OptPath(holdingsData, <<"data", "positions">>)
    /\ \A i \in 1..Len(rows) :
          PlainRecord(RowRecord(i)) =>
              /\ ~rows[i].threw
              /\ rows[i].quantity = RowRecord(i).v["quantity"]
              /\ DOMAIN RowRecord(i).v \cap TickerContainers = {} =>
                    rows[i].symbol = Str(Trim(RowRecord(i).v["symbol"].v))

\* Every row of a wrapped payload was rendered, one of them from a record whose
\* symbol is padded and whose quantity is 0.
C15_Witness ==
    /\ Normalized
    /\ WrappedPositions(holdingsData)
    /\ Len(rows) = Len(Get(normalized, "positions").v)
    /\ \E i \in 1..Len(rows) :
          /\ PlainRecord(RowRecord(i))
          /\ RowRecord(i).v["symbol"] = Str(Padded(MSFT))
          /\ RowRecord(i).v["quantity"] = Num(0)
          /\ rows[i].symbol = Str(MSFT)

\* position.symbol.symbol.symbol of a record.
TripleNested(p) == OptPath(p, <<"symbol", "symbol", "symbol">>)

\* The ticker is nested three levels deep as a non-blank string and the one
\* candidate consulted before the symbol paths, position.ticker, yields nothing.
TripleNestedCase(p) ==
    /\ IsUsableString(TripleNested(p))
    /\ CandidateString(OptGet(p, "ticker")) = Undefined

\* C16 (as stated): for a record whose ticker is nested as
\* symbol.symbol.symbol = s, s a non-blank string, and no higher-precedence
\* candidate holding a string, formatTicker returns s.
C16_TripleNestedAsStated ==
    \A i \in 1..Len(rows) :
        TripleNestedCase(RowRecord(i)) => rows[i].symbol = TripleNested(RowRecord(i))

\* C16 (amended): under the same conditions formatTicker returns s with its
\* surrounding whitespace removed.
C16_TripleNestedResolves ==
    \A i \in 1..Len(rows) :
        TripleNestedCase(RowRecord(i)) =>
            rows[i].symbol = Str(Trim(TripleNested(RowRecord(i)).v))

\* A row was rendered from {symbol: {symbol: {symbol: " TSLA "}}} plus
\* properties that no ticker candidate reads.
C16_Witness ==
    \E i \in 1..Len(rows) :
        /\ TripleNestedCase(RowRecord(i))
        /\ TripleNested(RowRecord(i)) = Str(Padded(TSLA))
        /\ rows[i].symbol = Str(TSLA)

\* No candidate of the list yields a string, directly or through the secondary
\* lookup of firstString.
NothingUsable(candidates) ==
    \A i \in 1..Len(candidates) : CandidateString(candidates[i]) = Undefined

\* C17: formatTicker and formatSecurityName never throw, and return the empty
\* string for every position in which no candidate path holds a usable value:
\* the empty object, null, undefined, a primitive, or an object whose candidate
\* fields are all absent, blank or non-string.
C17_NoCandidateIsEmpty ==
    \A i \in 1..Len(rows) :
        /\ rows[i].symbol # Thrown
        /\ rows[i].name # Thrown
        /\ NothingUsable(TickerCandidates(RowRecord(i))) => rows[i].symbol = EmptyString
        /\ NothingUsable(NameCandidates(RowRecord(i))) => rows[i].name = EmptyString
        /\ RowRecord(i) \in {EmptyObject, Null, Undefined, Num(7), Bool(TRUE), Str(AAPL)} =>
              /\ rows[i].symbol = EmptyString
              /\ rows[i].name = EmptyString

\* A row was rendered from an object whose candidate fields are blank or not
\* strings.
C17_Witness ==
    /\ rows # <<>>
    /\ RowRecord(1).t = "object"
    /\ {"ticker", "symbol", "name"} \subseteq DOMAIN RowRecord(1).v
    /\ RowRecord(1).v["ticker"] = Str(Blank)
    /\ RowRecord(1).v["symbol"] = Num(5)
    /\ RowRecord(1).v["name"] = Str(Blank)
    /\ NothingUsable(TickerCandidates(RowRecord(1)))
    /\ NothingUsable(NameCandidates(RowRecord(1)))
    /\ rows[1].symbol = EmptyString
    /\ rows[1].name = EmptyString

\* The first truthy value of a list of candidates, undefined when there is none.
RECURSIVE FirstTruthy(_)
FirstTruthy(cs) ==
    IF cs = <<>> THEN Undefined
    ELSE IF Truthy(Head(cs)) THEN Head(cs) ELSE FirstTruthy(Tail(cs))

\* The candidate when it is a sequence, the empty sequence otherwise.
AsSequence(c) == IF c.t = "array" THEN c ELSE EmptyArray

Field(x, k) == IF x.t = "object" /\ k \in DOMAIN x.v THEN x.v[k] ELSE Undefined

FlatFields(x) ==
    <<Field(x, "holdings"), Field(x, "positions"), Field(x, "accountHoldings"),
      Field(x, "results")>>

NestedFields(x) ==
    <<Field(Field(x, "data"), "positions"), Field(Field(x, "data"), "holdings"),
      Field(Field(x, "data"), "results"), Field(x, "data")>>

\* C20 (as stated): positions resolve from the first present candidate in a
\* fixed order in which the flat fields (holdings, positions, accountHoldings,
\* results) take precedence over the variants nested under the data wrapper
\* (data.positions, data.holdings, data.results, data); the result is that
\* candidate when it is a sequence and the empty sequence otherwise.
C20_FlatBeforeNested ==
    (Normalized /\ Truthy(holdingsData)) =>
        Get(normalized, "positions") =
            AsSequence(FirstTruthy(FlatFields(holdingsData) \o
                                   NestedFields(holdingsData) \o <<holdingsData>>))

\* C20 (amended): positions resolve from the first truthy candidate in the
\* order data.positions, data.holdings, data.results, data, then holdings,
\* positions, accountHoldings, results, then the payload itself: the variants
\* nested under the data wrapper take precedence over the flat fields. The
\* result is that candidate when it is a sequence and the empty sequence
\* otherwise.
C20_NestedBeforeFlat ==
    (Normalized /\ Truthy(holdingsData)) =>
        Get(normalized, "positions") =
            AsSequence(FirstTruthy(NestedFields(holdingsData) \o
                                   FlatFields(holdingsData) \o <<holdingsData>>))

\* A payload with one sequence under data and a different one in a flat field
\* was normalized, and the nested one was taken.
C20_Witness ==
    /\ Normalized
    /\ AsSequence(FirstTruthy(FlatFields(holdingsData))) # EmptyArray
    /\ AsSequence(FirstTruthy(NestedFields(holdingsData))) # EmptyArray
    /\ FirstTruthy(FlatFields(holdingsData)) # FirstTruthy(NestedFields(holdingsData))
    /\ Get(normalized, "positions") = FirstTruthy(NestedFields(holdingsData))

\* ------------------------------------------------ claims on the backend proxy
RegisterCalls == {i \in 1..Len(calls) : calls[i].api = "registerSnapTradeUser"}

\* C18: a registration request (POST /api/users) for a userId the remote
\* service already lists is answered with status 409, makes no registration
\* call to the remote service, and leaves the backend's secret store unchanged.
C18_ConflictAnswered ==
    (req.route = "register" /\ req.listed) =>
        /\ RegisterCalls = {}
        /\ userSecrets = req.store
        /\ hpc = "done" => response.status = 409

\* C19: any failure of a remote call made while handling a request is surfaced
\* as an error response carrying the upstream status code and error body; the
\* handler makes no further remote call after a failure and retries none.
C19_UpstreamFailureSurfaced ==
    \A i \in 1..Len(calls) :
        ~calls[i].ok =>
            /\ i = Len(calls)
            /\ hpc = "done"
            /\ calls[i].status # 0 =>
                  response = Reply(calls[i].status, "error.response.data")

\* ------------------------------------- further claims on the holdings view
\* The first of the fields symbol, ticker, code, name, id of c that is a
\* non-blank string, trimmed; undefined when none is.
FirstStringField(c) ==
    LET fields == <<"symbol", "ticker", "code", "name", "id">>
        usable == {i \in 1..Len(fields) : IsUsableString(Field(c, fields[i]))}
    IN  IF usable = {} THEN Undefined
        ELSE Str(Trim(Field(c, fields[CHOOSE i \in usable : \A j \in usable : i <= j]).v))

\* What a candidate yields when the secondary lookup is the first non-blank
\* string of the five fields.
StatedCandidateString(c) ==
    IF IsUsableString(c) THEN Str(Trim(c.v))
    ELSE IF c.t \in {"object", "array"} THEN FirstStringField(c)
    ELSE Undefined

RECURSIVE StatedFirstString(_)
StatedFirstString(candidates) ==
    IF candidates = <<>> THEN EmptyString
    ELSE IF StatedCandidateString(Head(candidates)) # Undefined
         THEN StatedCandidateString(Head(candidates))
         ELSE StatedFirstString(Tail(candidates))

\* C21: when a candidate passed to firstString is a structured value, firstString
\* tries its symbol, ticker, code, name and id fields in that order and returns
\* the first of them that is a non-blank string (trimmed); it moves on to the
\* next candidate only when none of the five fields is a non-blank string.
C21_NestedLookupFirstString ==
    \A i \in 1..Len(rows) :
        /\ rows[i].symbol = StatedFirstString(TickerCandidates(RowRecord(i)))
        /\ rows[i].name = StatedFirstString(NameCandidates(RowRecord(i)))

\* C22: field resolution of a position record is total: for every element of
\* the normalized positions, including null, undefined and non-object elements,
\* resolving ticker, securityName, quantity and price never throws.
C22_RowResolutionTotal ==
    \A i \in 1..Len(rows) :
        /\ ~rows[i].threw
        /\ Thrown \notin {rows[i].symbol, rows[i].name, rows[i].quantity, rows[i].price}

\* C26: for every input, both positions and accounts in the result of
\* normalizeHoldingsResponse are sequences, also when the payload's accounts or
\* brokerageAccounts field holds a non-sequence value.
C26_BothSequences ==
    Normalized =>
        /\ Get(normalized, "positions").t = "array"
        /\ Get(normalized, "accounts").t = "array"

\* The ticker/symbol strings a record holds on the candidate paths of
\* formatTicker: a candidate that is a non-blank string itself, or the symbol or
\* ticker field of a candidate that is an object.
TickerStrings(p) ==
    LET cs == TickerCandidates(p)
        direct == {cs[i] : i \in 1..Len(cs)}
        nested == {Field(cs[i], f) : i \in 1..Len(cs), f \in {"symbol", "ticker"}}
    IN  {Str(Trim(c.v)) : c \in {d \in direct \cup nested : IsUsableString(d)}}

\* C27: whenever some candidate path of formatTicker holds a non-blank
\* ticker/symbol string, formatTicker returns a ticker/symbol string and never
\* the value of an id (or name/code) field of a nested object.
C27_TickerBeforeIds ==
    \A i \in 1..Len(rows) :
        TickerStrings(RowRecord(i)) # {} => rows[i].symbol \in TickerStrings(RowRecord(i))

\* ---------------------------------------------- further claims on port reclaim
\* The pids the lookup wrote, read off the text the "data" handler collected.
ReportedPids == {kpBuf[i] : i \in 1..Len(kpBuf)} \cap Pids

\* C23: in the POSIX branch of killProcessOnPort, when the lookup reports one or
\* more pids, in one chunk or in several, a SIGKILL is sent to each reported pid
\* individually (one kill argument per pid, each argument exactly one pid), and
\* the function is then waiting for the settle delay before it returns.
C23_EachPidKilled ==
    (~isWindows /\ kpState = "settle" /\ kpKills # <<>>) =>
        /\ \A i \in 1..Len(kpKills) : kpKills[i] \in {<<p>> : p \in Pids}
        /\ {kpKills[i] : i \in 1..Len(kpKills)} = {<<p>> : p \in ReportedPids}

\* ------------------------------------------ further claims on the allocator
\* The allocator went through the collision re-scan and has finished, with the
\* occupancy every probe saw.
RescanFinished == rescanned /\ apc \in {"done", "threw"} /\ occChanges = 0

\* C25 (as claimed): after a collision the frontend is re-scanned from just
\* above the backend port with the start clamped to the frontend range ceiling,
\* and the first free port of that scan is returned, also when the backend port
\* equals or exceeds the frontend range ceiling.
C25_RescanClampedAsStated ==
    RescanFinished =>
        LET above == Max(opts.frontendRangeStart, backendPort + 1)
            start == Min({above, opts.frontendRangeEnd})
            free == FreeInRange(start, opts.frontendRangeEnd, occupied, {})
        IN  free # {} => apc = "done" /\ frontendPort = Min(free)

\* C25 (amended): after a collision findFreePorts keeps the backend port and
\* re-scans the ports from max(frontendRangeStart, backendPort + 1) up to
\* frontendRangeEnd; it returns the first free port of that scan, and throws
\* when the scan has no free port, which is always so when the backend port
\* equals or exceeds the frontend range ceiling.
C25_RescanAboveBackend ==
    /\ [](RescanFinished =>
            LET free == FreeInRange(Max(opts.frontendRangeStart, backendPort + 1),
                                    opts.frontendRangeEnd, occupied, {})
            IN  /\ free = {} => apc = "threw"
                /\ free # {} => apc = "done" /\ frontendPort = Min(free)
                /\ backendPort >= opts.frontendRangeEnd => apc = "threw")
    /\ [][rescanned' => backendPort' = backendPort \/ ~rescanned]_vars

\* C25 witness: the colliding backend port is at or above the frontend range
\* ceiling, and the re-scan threw.
C25_Witness ==
    /\ RescanFinished
    /\ backendPort >= opts.frontendRangeEnd
    /\ apc = "threw"

\* -------------------------------------- further claims on the supervisor
\* C24 (as claimed): at most 30 health probes are issued per run, and from the
\* moment the backend is spawned the supervisor eventually spawns the frontend
\* or exits, for every behaviour of the backend, also one that accepts a probe
\* and never answers it.
C24_HealthWaitBounded ==
    /\ [](probing \in {"inflight", "hung"} => attempt < MaxRetries)
    /\ (child.backend # "none") ~> (child.frontend # "none" \/ ~Alive)

\* The module variables BACKEND_PORT and FRONTEND_PORT have been assigned.
PortsAssigned == BACKEND_PORT # 0 \/ FRONTEND_PORT # 0

\* Every place the supervisor uses a port holds the allocated one.
AllocatedPortsEverywhere ==
    /\ BACKEND_PORT = backendPort
    /\ FRONTEND_PORT = frontendPort
    /\ UrlPort(StatusUrl(BACKEND_URL)) = backendPort
    /\ child.backend # "none" =>
          /\ ParseNumber(env.backend.BACKEND_PORT) = backendPort
          /\ UrlPort(env.backend.FRONT_END_URL) = frontendPort
    /\ child.frontend # "none" =>
          /\ ParseNumber(env.frontend.PORT) = frontendPort
          /\ ParseNumber(env.frontend.BACKEND_PORT) = backendPort
    /\ \A i \in 1..Len(trace) :
          /\ trace[i].ev \in {"cleanBackendPort", "spawnBackend", "healthy",
                              "reclaimBackendPort"} => trace[i].port = backendPort
          /\ trace[i].ev \in {"cleanFrontendPort", "spawnFrontend",
                              "reclaimFrontendPort"} => trace[i].port = frontendPort

\* C28: the allocated port pair is written exactly once, when findFreePorts has
\* returned, and never changes afterwards; the ports in the backend's and the
\* frontend's environment, the port of the health-probe URL and the ports
\* reclaimed at startup and at shutdown are the allocated backendPort and
\* frontendPort.
C28_PortsWrittenOnce ==
    /\ [](PortsAssigned => AllocatedPortsEverywhere)
    /\ [][PortsAssigned => UNCHANGED <<BACKEND_PORT, FRONTEND_PORT, BACKEND_URL,
                                       backendPort, frontendPort>>]_vars
    /\ [][BACKEND_PORT' # BACKEND_PORT => apc' = "done" /\ pc = "allocating"]_vars

\* C28 witness: a run with both children spawned that went through shutdown to
\* the reclamation of the frontend port.
C28_Witness ==
    /\ PortsAssigned
    /\ Count("spawnFrontend") = 1
    /\ Count("reclaimFrontendPort") = 1
    /\ BACKEND_PORT # FRONTEND_PORT

\* C29 (as claimed): the frontend's environment carries the allocated frontend
\* port, the allocated backend port, and the backend base URL under two names
\* whose values are the same URL.
C29_FrontendEnvAsStated ==
    child.frontend # "none" =>
        /\ env.frontend.PORT = DecimalString(frontendPort)
        /\ env.frontend.BACKEND_PORT = DecimalString(backendPort)
        /\ env.frontend.REACT_APP_BACKEND_URL = LocalUrl(backendPort)
        /\ env.frontend.REACT_APP_API_BASE_URL = env.frontend.REACT_APP_BACKEND_URL

\* C29 (amended): the frontend's environment carries the allocated frontend
\* port, the allocated backend port, the backend base URL
\* http://localhost:<backendPort> as REACT_APP_BACKEND_URL, and that URL with
\* the path /api appended as REACT_APP_API_BASE_URL.
C29_FrontendEnv ==
    child.frontend # "none" =>
        /\ env.frontend.PORT = DecimalString(frontendPort)
        /\ env.frontend.BACKEND_PORT = DecimalString(backendPort)
        /\ env.frontend.REACT_APP_BACKEND_URL = LocalUrl(backendPort)
        /\ env.frontend.REACT_APP_API_BASE_URL
              = env.frontend.REACT_APP_BACKEND_URL \o <<"/api">>

\* C29 witness: the frontend runs with the two variables holding different
\* values.
C29_Witness ==
    /\ child.frontend = "running"
    /\ env.frontend.REACT_APP_API_BASE_URL # env.frontend.REACT_APP_BACKEND_URL

\* A pending health probe is answered in this step.
ProbeAnswered ==
    /\ pc = "waiting"
    /\ probing \in {"inflight", "hung"}
    /\ probing' \in {"sleeping", "none"}

\* C30: the probe succeeds only if the status handler's check of the remote
\* service succeeds. A listening backend whose check fails answers 500, which
\* counts as not ready: the supervisor pauses and spawns no frontend; the
\* frontend is spawned only on an answer of 200; and when the 30 probes have all
\* failed the supervisor exits with status 1 without a frontend, also with the
\* backend up.
C30_RemoteCheckGatesReadiness ==
    /\ [][(ProbeAnswered /\ child.backend = "listening" /\ lastStatus' # 200) =>
             /\ lastStatus' = 500
             /\ probing' = "sleeping"
             /\ child'.frontend = "none"]_vars
    /\ [][(ProbeAnswered /\ child'.frontend # "none") =>
             lastStatus' = 200 /\ child.backend = "listening"]_vars
    /\ [](child.frontend # "none" => lastStatus = 200)
    /\ [](Count("healthTimeout") > 0 =>
             /\ lastStatus # 200
             /\ exitCode = 1
             /\ child.frontend = "none")

\* C30 witness: the supervisor gave up and exited 1 after a last answer of 500
\* from a backend that is up.
C30_Witness ==
    /\ Count("healthTimeout") = 1
    /\ lastStatus = 500
    /\ child.backend = "listening"
    /\ child.frontend = "none"
    /\ exitCode = 1

====
